---------------------------- MODULE TaskBoardProofs ----------------------------
(***************************************************************************)
(* TypeOK and ReleaseNotLost are invariants of TaskBoard, for any tasks,   *)
(* plans, requests and bounds.                                             *)
(*                                                                         *)
(* ReleaseNotLost is proved of every blocked task without open blockers,   *)
(* whether it has blockers or not (Settled).  A step keeps it if it does   *)
(* not take a process past a task it had still to look at (BoardStep), and *)
(* a walk has nothing left to look at before it begins (Proper).  Runs     *)
(* begin outside any walk, and only the process that has created one       *)
(* queues it (Creations).                                                  *)
(***************************************************************************)
EXTENDS TaskBoard, TLAPS

Places == RequestPC \cup RunPC
InWalk == {"count", "lookup", "release", "dispatch", "create", "xadd"}

Tables ==
    /\ status \in [Tasks -> Status \cup {"absent", "gone"}]
    /\ assignee \in [Tasks -> Assignee]
    /\ deleted \in [Tasks -> BOOLEAN]
    /\ deps \subseteq Tasks \X Tasks
    /\ coordinator \in BOOLEAN
    /\ quiet \in [Tasks -> BOOLEAN]
    /\ edits \in 0..MaxEdits /\ faults \in 0..MaxFaults

RunTable ==
    /\ nRuns \in 0..MaxRuns
    /\ runTask \in [Runs -> Tasks \cup {Null}]
    /\ runLog \in [Runs -> {"none", "RUNNING", "STOPPED", "over"}]
    /\ runFor \in [Runs -> Assignee]

Locals ==
    /\ pc \in [Procs -> Places]
    /\ \A q \in Requests : pc[q] \in RequestPC
    /\ \A r \in Runs : pc[r] \in RunPC
    /\ job \in [Procs -> Tasks \cup {Null}]
    /\ want \in [Procs -> Status \cup Assignee]
    /\ seen \in [Procs -> Status \cup Assignee]
    /\ left \in [Procs -> SUBSET Tasks]
    /\ dep \in [Procs -> Tasks \cup {Null}]
    /\ new \in [Procs -> 0..MaxRuns]

(* What a process has, by where it is. *)
Proper(p) ==
    /\ pc[p] \in {"write", "coord", "restart", "stop", "remove", "deps"} => job[p] \in Tasks
    /\ pc[p] \in {"lookup", "release", "dispatch", "create", "xadd", "link"} => dep[p] \in Tasks
    /\ pc[p] \in {"restart", "stop", "remove", "next", "dispatch", "create"} => seen[p] \in Assignee
    /\ left[p] # {} => pc[p] \in InWalk
    /\ (p \in Runs /\ pc[p] # "none") =>
          job[p] \in Tasks /\ want[p] \in {"DONE", "TODO"} /\ p <= nRuns

(* A created run waits for its creator, and for nobody else. *)
Creations ==
    \A p \in Procs : At(p, "xadd") =>
        /\ new[p] \in Runs /\ pc[new[p]] = "logged"
        /\ \A q \in Procs \ {p} : At(q, "xadd") => new[q] # new[p]

Free(b)    == status[b] = "BLOCKED" /\ OpenBlockers(b) = {}
Settled(b) == Free(b) => quiet[b] \/ \E p \in Procs : Ahead(p, b)

IInv ==
    /\ Tables /\ RunTable /\ Locals
    /\ \A p \in Procs : Proper(p)
    /\ Creations
    /\ \A b \in Tasks : Settled(b)

LEMMA Kinds ==
  /\ Requests \subseteq Procs /\ Runs \subseteq Procs /\ Requests \cap Runs = {}
  /\ Procs = Requests \cup Runs
  /\ MaxRuns \in Nat /\ MaxEdits \in Nat /\ MaxFaults \in Nat
BY BoardAssumption DEF BoardAssumption, Procs, Runs

LEMMA Types == IInv => TypeOK
BY DEF IInv, Tables, RunTable, Locals, TypeOK, Places

-----------------------------------------------------------------------------
(* Steps of one process.                                                   *)

OnlyOf(p) ==
    /\ Locals'
    /\ \A r \in Procs \ {p} : /\ pc'[r] = pc[r] /\ job'[r] = job[r] /\ want'[r] = want[r]
                              /\ seen'[r] = seen[r] /\ left'[r] = left[r]
                              /\ dep'[r] = dep[r] /\ new'[r] = new[r]

(* The step takes p past no task that may be released. *)
BoardStep(p) ==
    \A b \in Tasks : Free(b)' =>
        \/ quiet'[b] \/ Ahead(p, b)'
        \/ Free(b) /\ ~Ahead(p, b) /\ (quiet[b] => quiet'[b])

LEMMA MoveOK ==
  ASSUME IInv, NEW p \in Procs, OnlyOf(p), Tables', RunTable', nRuns' = nRuns, deps \subseteq deps',
         Proper(p)', pc[p] # "logged", pc'[p] # "xadd", BoardStep(p)
  PROVE  IInv'
<1>1. Locals' BY DEF OnlyOf
<1>2. ASSUME NEW r \in Procs PROVE Proper(r)'
  <2>1. CASE r = p BY <2>1
  <2>2. CASE r # p
    <3>1. Proper(r) BY DEF IInv
    <3>2. pc'[r] = pc[r] /\ job'[r] = job[r] /\ want'[r] = want[r] /\ seen'[r] = seen[r]
          /\ left'[r] = left[r] /\ dep'[r] = dep[r]
      BY <2>2 DEF OnlyOf
    <3> QED BY <3>1, <3>2 DEF Proper
  <2> QED BY <2>1, <2>2
<1>3. Creations'
  <2>1. \A r \in Procs : pc'[r] = "xadd" => r # p /\ pc[r] = "xadd" /\ new'[r] = new[r]
    BY DEF OnlyOf
  <2>2. \A r \in Procs : pc[r] = "logged" => pc'[r] = "logged" BY DEF OnlyOf
  <2> QED BY <2>1, <2>2, Kinds DEF IInv, Creations, At
<1>4. ASSUME NEW b \in Tasks PROVE Settled(b)'
  <2> SUFFICES ASSUME Free(b)' PROVE quiet'[b] \/ \E r \in Procs : Ahead(r, b)' BY DEF Settled
  <2>1. CASE quiet'[b] \/ Ahead(p, b)' BY <2>1
  <2>2. CASE Free(b) /\ ~Ahead(p, b) /\ (quiet[b] => quiet'[b])
    <3>1. quiet[b] \/ \E r \in Procs : Ahead(r, b) BY <2>2 DEF IInv, Settled
    <3>2. ASSUME NEW r \in Procs, Ahead(r, b) PROVE Ahead(r, b)'
      <4>1. r # p BY <3>2, <2>2
      <4>2. pc'[r] = pc[r] /\ job'[r] = job[r] /\ want'[r] = want[r]
            /\ left'[r] = left[r] /\ dep'[r] = dep[r]
        BY <4>1 DEF OnlyOf
      <4> QED BY <3>2, <4>2 DEF Ahead, At, Dependents
    <3> QED BY <2>2, <3>1, <3>2
  <2> QED BY <2>1, <2>2 DEF BoardStep
<1> QED BY <1>1, <1>2, <1>3, <1>4 DEF IInv

LEMMA GotoOnly ==
  ASSUME Locals, NEW p \in Procs, NEW l \in Places, Goto(p, l),
         p \in Requests => l \in RequestPC, p \in Runs => l \in RunPC,
         \/ job' = job
         \/ \E t \in Tasks \cup {Null} : job' = [job EXCEPT ![p] = t],
         \/ want' = want
         \/ \E s \in Status \cup Assignee : want' = [want EXCEPT ![p] = s],
         \/ seen' = seen
         \/ \E s \in Status \cup Assignee : seen' = [seen EXCEPT ![p] = s],
         \/ left' = left
         \/ \E S \in SUBSET Tasks : left' = [left EXCEPT ![p] = S],
         \/ dep' = dep
         \/ \E t \in Tasks \cup {Null} : dep' = [dep EXCEPT ![p] = t],
         new' = new
  PROVE  OnlyOf(p) /\ pc'[p] = l
<1>1. pc' \in [Procs -> Places] /\ pc'[p] = l /\ (\A r \in Procs \ {p} : pc'[r] = pc[r])
  BY DEF Locals, Goto
<1>2. (\A q \in Requests : pc'[q] \in RequestPC) /\ (\A r \in Runs : pc'[r] \in RunPC)
  BY <1>1, Kinds DEF Locals
<1>3. job' \in [Procs -> Tasks \cup {Null}] /\ (\A r \in Procs \ {p} : job'[r] = job[r])
  BY DEF Locals
<1>4. want' \in [Procs -> Status \cup Assignee] /\ (\A r \in Procs \ {p} : want'[r] = want[r])
  BY DEF Locals
<1>5. seen' \in [Procs -> Status \cup Assignee] /\ (\A r \in Procs \ {p} : seen'[r] = seen[r])
  BY DEF Locals
<1>6. left' \in [Procs -> SUBSET Tasks] /\ (\A r \in Procs \ {p} : left'[r] = left[r])
  BY DEF Locals
<1>7. dep' \in [Procs -> Tasks \cup {Null}] /\ (\A r \in Procs \ {p} : dep'[r] = dep[r])
  BY DEF Locals
<1>8. new' \in [Procs -> 0..MaxRuns] BY DEF Locals
<1>9. Locals' BY <1>1, <1>2, <1>3, <1>4, <1>5, <1>6, <1>7, <1>8 DEF Locals
<1> QED BY <1>1, <1>3, <1>4, <1>5, <1>6, <1>7, <1>9 DEF OnlyOf

LEMMA AdvanceOnly ==
  ASSUME Locals, NEW p \in Procs, NEW S \in SUBSET Tasks, Advance(p, S, pc)
  PROVE  /\ OnlyOf(p) /\ left'[p] = S
         /\ pc'[p] = IF S = {} THEN Resting(p) ELSE "count"
         /\ p \in Runs => job'[p] = job[p] /\ want'[p] = want[p]
<1> USE DEF Advance
<1>1. pc' \in [Procs -> Places] /\ pc'[p] = (IF S = {} THEN Resting(p) ELSE "count")
      /\ (\A r \in Procs \ {p} : pc'[r] = pc[r])
  BY DEF Locals, Places, RequestPC, RunPC, WalkPC, Resting
<1>2. (\A q \in Requests : pc'[q] \in RequestPC) /\ (\A r \in Runs : pc'[r] \in RunPC)
  BY <1>1, Kinds DEF Locals, RequestPC, RunPC, WalkPC, Resting
<1>3. job' \in [Procs -> Tasks \cup {Null}] /\ (\A r \in Procs \ {p} : job'[r] = job[r])
  BY DEF Locals
<1>4. want' \in [Procs -> Status \cup Assignee] /\ (\A r \in Procs \ {p} : want'[r] = want[r])
  BY DEF Locals, Assignee
<1>5. seen' \in [Procs -> Status \cup Assignee] /\ (\A r \in Procs \ {p} : seen'[r] = seen[r])
  BY DEF Locals, Assignee
<1>6. left' \in [Procs -> SUBSET Tasks] /\ left'[p] = S
      /\ (\A r \in Procs \ {p} : left'[r] = left[r])
  BY DEF Locals
<1>7. dep' \in [Procs -> Tasks \cup {Null}] /\ (\A r \in Procs \ {p} : dep'[r] = dep[r])
  BY DEF Locals
<1>8. new' \in [Procs -> 0..MaxRuns] /\ (\A r \in Procs \ {p} : new'[r] = new[r])
  BY Kinds DEF Locals
<1>9. Locals' BY <1>1, <1>2, <1>3, <1>4, <1>5, <1>6, <1>7, <1>8 DEF Locals
<1>10. p \in Runs => job'[p] = job[p] /\ want'[p] = want[p] BY Kinds DEF Locals
<1> QED BY <1>1, <1>3, <1>4, <1>5, <1>6, <1>7, <1>8, <1>9, <1>10 DEF OnlyOf

-----------------------------------------------------------------------------
(* What a step does to the board.                                          *)

LEMMA NotAhead ==
  ASSUME NEW p, Proper(p), pc[p] \notin InWalk \cup {"coord", "deps"}
  PROVE  \A b : ~Ahead(p, b)
BY DEF Proper, Ahead, At, InWalk

LEMMA NotAheadNext ==
  ASSUME NEW p, Proper(p)', pc'[p] \notin InWalk \cup {"coord", "deps"}
  PROVE  \A b : ~Ahead(p, b)'
BY DEF Proper, Ahead, At, InWalk

(* Only quiet may grow. *)
LEMMA BoardKept ==
  ASSUME NEW p, UNCHANGED <<status, deps>>, \A b \in Tasks : quiet[b] => quiet'[b],
         \A b \in Tasks : Free(b) /\ Ahead(p, b) => quiet'[b] \/ Ahead(p, b)'
  PROVE  BoardStep(p)
<1>1. \A b \in Tasks : Free(b)' <=> Free(b) BY DEF Free, OpenBlockers, Blockers
<1> QED BY <1>1 DEF BoardStep

LEMMA SetStatusTyped ==
  ASSUME Tables, NEW t \in Tasks, NEW s \in Status, NEW looks \in BOOLEAN, SetStatus(t, s, looks)
  PROVE  /\ status' \in [Tasks -> Status \cup {"absent", "gone"}]
         /\ quiet' \in [Tasks -> BOOLEAN]
BY DEF Tables, SetStatus

(* Whom a status sets free has someone to look at it, or is quiet. *)
LEMMA SetFree ==
  ASSUME Tables, NEW t \in Tasks, NEW s \in Status, NEW looks \in BOOLEAN, SetStatus(t, s, looks),
         deps' = deps, NEW b \in Tasks, Free(b)'
  PROVE  \/ quiet'[b]
         \/ looks /\ s = "DONE" /\ b \in Dependents(t)
         \/ Free(b) /\ quiet'[b] = quiet[b] /\ (b = t => s = "BLOCKED")
<1>1. status'[b] = "BLOCKED" /\ status'[t] = s /\ (\A a \in Tasks \ {t} : status'[a] = status[a])
  BY DEF Free, SetStatus, Tables
<1>2. \A a \in Blockers(b) : a \in Tasks /\ status'[a] = "DONE"
  BY DEF Free, OpenBlockers, Blockers
<1>3. quiet'[b] = IF b = t /\ s = "BLOCKED" /\ status[t] # "BLOCKED" THEN OpenBlockers(t) = {}
                  ELSE IF t \in Blockers(b) /\ s = "DONE" /\ status[t] # "DONE" THEN ~looks
                  ELSE quiet[b]
  BY DEF SetStatus
<1>4. CASE b = t
  <2>1. s = "BLOCKED" BY <1>1, <1>4
  <2>2. t \notin Blockers(t) BY <1>1, <1>2, <1>4
  <2>3. OpenBlockers(t) = {} BY <1>1, <1>2, <1>4, <2>2 DEF OpenBlockers
  <2> QED BY <1>3, <1>4, <2>1, <2>3 DEF Free
<1>5. CASE b # t
  <2>1. CASE t \in Blockers(b) /\ s = "DONE" /\ status[t] # "DONE"
    <3>1. b \in Dependents(t) BY <2>1 DEF Blockers, Dependents
    <3> QED BY <1>3, <1>5, <2>1, <3>1
  <2>2. CASE ~(t \in Blockers(b) /\ s = "DONE" /\ status[t] # "DONE")
    <3>1. \A a \in Blockers(b) : status[a] = "DONE" BY <1>1, <1>2, <2>2
    <3>2. OpenBlockers(b) = {} BY <3>1 DEF OpenBlockers
    <3>3. quiet'[b] = quiet[b] BY <1>3, <1>5, <2>2
    <3> QED BY <1>1, <1>5, <3>2, <3>3 DEF Free
  <2> QED BY <2>1, <2>2
<1> QED BY <1>4, <1>5

LEMMA BoardSet ==
  ASSUME Tables, NEW p, NEW t \in Tasks, NEW s \in Status, NEW looks \in BOOLEAN,
         SetStatus(t, s, looks), deps' = deps,
         \A b \in Tasks : Ahead(p, b) => Ahead(p, b)' \/ (b = t /\ s # "BLOCKED"),
         (looks /\ s = "DONE") => \A b \in Dependents(t) : Ahead(p, b)'
  PROVE  BoardStep(p)
<1> SUFFICES ASSUME NEW b \in Tasks, Free(b)'
             PROVE  \/ quiet'[b] \/ Ahead(p, b)'
                    \/ Free(b) /\ ~Ahead(p, b) /\ (quiet[b] => quiet'[b])
  BY DEF BoardStep
<1>1. \/ quiet'[b]
      \/ looks /\ s = "DONE" /\ b \in Dependents(t)
      \/ Free(b) /\ quiet'[b] = quiet[b] /\ (b = t => s = "BLOCKED")
  BY SetFree
<1> QED BY <1>1

(* The process goes on with some of its dependents, or has none left. *)
LEMMA AdvanceOK ==
  ASSUME IInv, NEW p \in Procs, NEW S \in SUBSET Tasks, Advance(p, S, pc),
         pc[p] \notin {"none", "logged"}, Tables', UNCHANGED runVars, deps' = deps, BoardStep(p)
  PROVE  IInv'
<1>1. /\ OnlyOf(p) /\ left'[p] = S
      /\ pc'[p] = IF S = {} THEN Resting(p) ELSE "count"
      /\ p \in Runs => job'[p] = job[p] /\ want'[p] = want[p]
  BY AdvanceOnly DEF IInv
<1>2. pc'[p] \in {"idle", "save", "count"} /\ (S # {} => pc'[p] = "count") BY <1>1 DEF Resting
<1>3. Proper(p)'
  <2>1. Proper(p) BY DEF IInv
  <2> QED BY <1>1, <1>2, <2>1 DEF Proper, InWalk, runVars
<1>4. RunTable' /\ nRuns' = nRuns BY DEF IInv, RunTable, runVars
<1> QED BY <1>1, <1>2, <1>3, <1>4, MoveOK

LEMMA AdvanceKept ==
  ASSUME IInv, NEW p \in Procs, NEW S \in SUBSET Tasks, Advance(p, S, pc),
         pc[p] \notin {"none", "logged"}, Tables', UNCHANGED <<status, deps, runVars>>,
         \A b \in Tasks : quiet[b] => quiet'[b],
         \A b \in Tasks : Free(b) /\ Ahead(p, b) => quiet'[b] \/ b \in S
  PROVE  IInv'
<1>1. left'[p] = S BY AdvanceOnly DEF IInv
<1>2. \A b \in S : Ahead(p, b)' BY <1>1 DEF Ahead
<1>3. BoardStep(p) BY <1>2, BoardKept
<1> QED BY <1>3, AdvanceOK

(* The process goes to its next statement and keeps what it has left to look at. *)
LEMMA GoOn ==
  ASSUME IInv, NEW p \in Procs, OnlyOf(p), pc[p] \notin {"none", "logged"},
         pc'[p] \notin {"none", "xadd"}, Proper(p)', Tables', UNCHANGED <<status, deps, runVars>>,
         \A b \in Tasks : quiet[b] => quiet'[b],
         \A b \in Tasks : Free(b) /\ Ahead(p, b) => quiet'[b] \/ Ahead(p, b)'
  PROVE  IInv'
<1>1. BoardStep(p) BY BoardKept
<1>2. RunTable' /\ nRuns' = nRuns BY DEF IInv, RunTable, runVars
<1> QED BY <1>1, <1>2, MoveOK

LEMMA Unmoved ==
  ASSUME IInv, NEW p \in Procs, UNCHANGED <<procVars, nRuns>>
  PROVE  OnlyOf(p) /\ Proper(p)'
<1>1. Locals' BY DEF IInv, Locals, procVars
<1>2. Proper(p) BY DEF IInv
<1> QED BY <1>1, <1>2 DEF OnlyOf, Proper, procVars

(* Nobody moves, and the board is as it was. *)
LEMMA NobodyMoves ==
  ASSUME IInv, Tables', RunTable', UNCHANGED <<procVars, nRuns, status, deps, quiet>>
  PROVE  IInv'
<1>1. \A p \in Procs : Proper(p)' BY Unmoved
<1>2. Locals' BY DEF IInv, Locals, procVars
<1>3. Creations' BY DEF IInv, Creations, At, procVars
<1>4. ASSUME NEW b \in Tasks PROVE Settled(b)'
  <2>1. Settled(b) BY DEF IInv
  <2> QED BY <2>1 DEF Settled, Free, OpenBlockers, Blockers, Ahead, At, Dependents, procVars
<1> QED BY <1>1, <1>2, <1>3, <1>4 DEF IInv

-----------------------------------------------------------------------------
(* TasksService                                                            *)

LEMMA EditTyped == ASSUME Edit, Tables PROVE edits' \in 0..MaxEdits
BY Kinds DEF Edit, Tables

LEMMA FaultTyped == ASSUME Fault, Tables PROVE faults' \in 0..MaxFaults
BY Kinds DEF Fault, Tables

LEMMA BeginOK ==
  ASSUME IInv, NEW q \in Requests, NEW t \in Tasks, NEW v \in Status \cup Assignee,
         NEW read \in Status \cup Assignee, NEW l \in {"write", "restart", "stop"},
         Begin(q, t, v, read, l), l # "write" => read \in Assignee
  PROVE  IInv'
<1>1. pc[q] = "idle" /\ q \in Procs /\ q \notin Runs BY Kinds DEF Begin, At
<1>2. OnlyOf(q) /\ pc'[q] = l
  <2>1. l \in Places /\ l \in RequestPC BY DEF Places, RequestPC
  <2> QED BY <1>1, <2>1, GotoOnly DEF Begin, IInv
<1>3. job'[q] = t /\ seen'[q] = read /\ left'[q] = left[q]
  BY <1>1 DEF Begin, IInv, Locals
<1>4. Proper(q) BY <1>1 DEF IInv
<1>5. Proper(q)' BY <1>1, <1>2, <1>3, <1>4 DEF Proper, InWalk
<1>6. Tables' BY EditTyped DEF Begin, tableVars, IInv, Tables
<1>7. \A b : ~Ahead(q, b) BY <1>1, <1>4, NotAhead DEF InWalk
<1> QED BY <1>1, <1>2, <1>5, <1>6, <1>7, GoOn DEF Begin, tableVars

LEMMA WriteNothingOK == ASSUME IInv, NEW q \in Requests, WriteNothing(q) PROVE IInv'
<1>1. pc[q] = "write" /\ q \in Procs /\ Advance(q, {}, pc) BY Kinds DEF WriteNothing, At, Answer
<1>2. \A b : ~Ahead(q, b) BY <1>1, NotAhead DEF IInv, InWalk
<1>3. Tables' BY DEF WriteNothing, tableVars, boundVars, IInv, Tables
<1> QED BY <1>1, <1>2, <1>3, AdvanceKept DEF WriteNothing, tableVars

(* To dispatch the task just written, or to answer: either way nothing is left to look at. *)
LEMMA AfterWriteOnly ==
  ASSUME IInv, NEW q \in Requests, pc[q] = "write", NEW s, NEW a \in Assignee,
         AfterWrite(q, s, a), nRuns' = nRuns
  PROVE  OnlyOf(q) /\ pc'[q] \in {"dispatch", "idle"} /\ Proper(q)'
<1>1. q \in Procs /\ q \notin Runs /\ Proper(q) BY Kinds DEF IInv
<1>2. job[q] \in Tasks /\ left[q] = {} BY <1>1 DEF Proper, InWalk
<1>3. CASE Enqueueable(s, a)
  <2>1. Goto(q, "dispatch") /\ dep' = [dep EXCEPT ![q] = job[q]] /\ seen' = [seen EXCEPT ![q] = a]
        /\ UNCHANGED <<job, want, left, new>>
    BY <1>3 DEF AfterWrite
  <2>2. "dispatch" \in Places /\ "dispatch" \in RequestPC BY DEF Places, RequestPC, WalkPC
  <2>3. OnlyOf(q) /\ pc'[q] = "dispatch" BY <1>1, <1>2, <2>1, <2>2, GotoOnly DEF IInv
  <2>4. dep'[q] = job[q] /\ seen'[q] = a /\ left'[q] = {} BY <1>1, <1>2, <2>1 DEF IInv, Locals
  <2> QED BY <1>1, <1>2, <2>3, <2>4 DEF Proper
<1>4. CASE ~Enqueueable(s, a)
  <2>1. Advance(q, {}, pc) BY <1>4 DEF AfterWrite, Answer
  <2>2. OnlyOf(q) /\ left'[q] = {} /\ pc'[q] = "idle"
    BY <1>1, <2>1, AdvanceOnly DEF IInv, Resting
  <2> QED BY <1>1, <2>2 DEF Proper
<1> QED BY <1>3, <1>4

LEMMA WriteAssigneeOK == ASSUME IInv, NEW q \in Requests, WriteAssignee(q) PROVE IInv'
<1>1. pc[q] = "write" /\ q \in Procs /\ want[q] \in Assignee /\ AfterWrite(q, status[job[q]], want[q])
      /\ assignee' = [assignee EXCEPT ![job[q]] = want[q]]
      /\ UNCHANGED <<status, quiet, deleted, deps, coordinator, runVars, boundVars>>
  BY Kinds DEF WriteAssignee, At
<1>2. OnlyOf(q) /\ pc'[q] \in {"dispatch", "idle"} /\ Proper(q)'
  BY <1>1, AfterWriteOnly DEF runVars
<1>3. \A b : ~Ahead(q, b) BY <1>1, NotAhead DEF IInv, InWalk
<1>4. Tables' BY <1>1 DEF boundVars, IInv, Tables
<1> QED BY <1>1, <1>2, <1>3, <1>4, GoOn

LEMMA WriteStatusOK == ASSUME IInv, NEW q \in Requests, WriteStatus(q) PROVE IInv'
<1>1. pc[q] = "write" /\ q \in Procs /\ q \notin Runs /\ want[q] \in Status
      /\ SetStatus(job[q], want[q], Changes(q)) /\ KeepTask /\ UNCHANGED <<runVars, boundVars>>
  BY Kinds DEF WriteStatus, At
<1>2. job[q] \in Tasks /\ left[q] = {} BY <1>1 DEF IInv, Proper, InWalk
<1>3. Changes(q) \in BOOLEAN BY DEF Changes
<1>4. OnlyOf(q) /\ pc'[q] \notin {"none", "xadd"} /\ Proper(q)'
      /\ (Changes(q) /\ want[q] = "DONE" =>
            pc'[q] = "coord" /\ job'[q] = job[q] /\ want'[q] = want[q])
  <2>1. CASE Changes(q) /\ want[q] \in {"DONE", "BLOCKED"}
    <3>1. Goto(q, "coord") /\ UNCHANGED <<job, want, seen, left, dep, new>>
      BY <2>1 DEF WriteStatus
    <3>2. "coord" \in Places /\ "coord" \in RequestPC BY DEF Places, RequestPC
    <3>3. OnlyOf(q) /\ pc'[q] = "coord" BY <1>1, <3>1, <3>2, GotoOnly DEF IInv
    <3> QED BY <1>1, <1>2, <3>1, <3>3 DEF Proper
  <2>2. CASE ~(Changes(q) /\ want[q] \in {"DONE", "BLOCKED"})
    <3>1. AfterWrite(q, want[q], assignee[job[q]]) BY <2>2 DEF WriteStatus
    <3>2. assignee[job[q]] \in Assignee BY <1>2 DEF IInv, Tables
    <3> QED BY <1>1, <2>2, <3>1, <3>2, AfterWriteOnly DEF runVars
  <2> QED BY <2>1, <2>2
<1>5. \A b : ~Ahead(q, b) BY <1>1, NotAhead DEF IInv, InWalk
<1>6. Tables'
  <2>1. status' \in [Tasks -> Status \cup {"absent", "gone"}] /\ quiet' \in [Tasks -> BOOLEAN]
    BY <1>1, <1>2, <1>3, SetStatusTyped DEF IInv
  <2> QED BY <1>1, <2>1 DEF KeepTask, boundVars, IInv, Tables
<1>7. BoardStep(q)
  <2>1. (Changes(q) /\ want[q] = "DONE") => \A b \in Dependents(job[q]) : Ahead(q, b)'
    BY <1>1, <1>4 DEF Ahead, At, Dependents, KeepTask
  <2>2. deps' = deps /\ Tables BY <1>1 DEF KeepTask, IInv
  <2>3. \A b \in Tasks : Ahead(q, b) => Ahead(q, b)' \/ (b = job[q] /\ want[q] # "BLOCKED") BY <1>5
  <2> QED BY <1>1, <1>2, <1>3, <2>1, <2>2, <2>3, BoardSet
<1> QED BY <1>1, <1>4, <1>6, <1>7, MoveOK DEF KeepTask, runVars, IInv, RunTable

LEMMA CoordinateOK == ASSUME IInv, NEW q \in Requests, Coordinate(q) PROVE IInv'
<1>1. pc[q] = "coord" /\ q \in Procs /\ q \notin Runs /\ KeepTask /\ UNCHANGED <<status, runVars, boundVars>>
  BY Kinds DEF Coordinate, At
<1>2. job[q] \in Tasks /\ left[q] = {} BY <1>1 DEF IInv, Proper, InWalk
<1>3. \A b : Ahead(q, b) <=> want[q] = "DONE" /\ b \in Dependents(job[q])
  BY <1>1, <1>2 DEF Ahead, At
<1>4. CASE coordinator
  <2>1. Advance(q, {}, pc) /\ quiet' = [b \in Tasks |-> quiet[b] \/ (want[q] = "DONE" /\ b \in Dependents(job[q]))]
    BY <1>4 DEF Coordinate, Answer
  <2>2. quiet' \in [Tasks -> BOOLEAN] /\ (\A b \in Tasks : quiet[b] \/ Ahead(q, b) => quiet'[b])
    BY <2>1, <1>3 DEF IInv, Tables
  <2>3. Tables' BY <1>1, <2>2 DEF KeepTask, boundVars, IInv, Tables
  <2> QED BY <1>1, <2>1, <2>2, <2>3, AdvanceKept DEF KeepTask
<1>5. CASE ~coordinator
  <2>1. quiet' = quiet BY <1>5 DEF Coordinate
  <2>2. Tables' BY <1>1, <2>1 DEF KeepTask, boundVars, IInv, Tables
  <2>3. CASE want[q] = "DONE"
    <3>1. Goto(q, "deps") /\ UNCHANGED <<job, want, seen, left, dep, new>>
      BY <1>5, <2>3 DEF Coordinate
    <3>2. "deps" \in Places /\ "deps" \in RequestPC BY DEF Places, RequestPC, WalkPC
    <3>3. OnlyOf(q) /\ pc'[q] = "deps" BY <1>1, <3>1, <3>2, GotoOnly DEF IInv
    <3>4. Proper(q)' BY <1>1, <1>2, <3>1, <3>3 DEF Proper
    <3>5. \A b \in Tasks : Ahead(q, b) => Ahead(q, b)'
      BY <1>1, <1>3, <3>1, <3>3 DEF Ahead, At, Dependents, KeepTask
    <3> QED BY <1>1, <2>1, <2>2, <3>3, <3>4, <3>5, GoOn DEF KeepTask
  <2>4. CASE want[q] # "DONE"
    <3>1. Advance(q, {}, pc) BY <1>5, <2>4 DEF Coordinate, Answer
    <3> QED BY <1>1, <1>3, <2>1, <2>2, <2>4, <3>1, AdvanceKept DEF KeepTask
  <2> QED BY <2>3, <2>4
<1> QED BY <1>4, <1>5

(* The requests of people, each at its first statement. *)
LEMMA UpdateOK ==
  ASSUME IInv, NEW q \in Requests, NEW t \in Tasks, NEW v \in Writes, Update(q, t, v)
  PROVE  IInv'
<1>1. v \in Status \cup Assignee BY BoardAssumption DEF BoardAssumption
<1>2. status[t] \in Status BY DEF Update, Exists, IInv, Tables
<1>3. Begin(q, t, v, status[t], "write") BY DEF Update
<1> QED BY <1>1, <1>2, <1>3, BeginOK

LEMMA TriggerRunOK ==
  ASSUME IInv, NEW q \in Requests, NEW t \in Tasks, TriggerRun(q, t) \/ Delete(q, t)
  PROVE  IInv'
<1>1. assignee[t] \in Assignee /\ "none" \in Assignee BY DEF IInv, Tables, Assignee
<1>2. PICK l \in {"restart", "stop"} : Begin(q, t, "none", assignee[t], l) BY DEF TriggerRun, Delete
<1> QED BY <1>1, <1>2, BeginOK

LEMMA CreateTaskOK ==
  ASSUME IInv, NEW q \in Requests, NEW t \in Tasks, NEW s \in {"BACKLOG", "TODO"}, NEW a \in Assignee,
         CreateTask(q, t, s, a)
  PROVE  IInv'
<1>1. pc[q] = "idle" /\ q \in Procs /\ q \notin Runs /\ s \in Status /\ SetStatus(t, s, FALSE)
      /\ assignee' = [assignee EXCEPT ![t] = a] /\ Proper(q)
      /\ UNCHANGED <<deleted, deps, coordinator, runVars, job, want, left, new, faults>>
  BY Kinds DEF CreateTask, At, Status, IInv
<1>2. left[q] = {} BY <1>1 DEF Proper, InWalk
<1>3. OnlyOf(q) /\ pc'[q] \in {"dispatch", "idle"} /\ Proper(q)'
  <2>1. CASE Enqueueable(s, a)
    <3>1. Goto(q, "dispatch") /\ dep' = [dep EXCEPT ![q] = t] /\ seen' = [seen EXCEPT ![q] = a]
      BY <2>1 DEF CreateTask
    <3>2. "dispatch" \in Places /\ "dispatch" \in RequestPC BY DEF Places, RequestPC, WalkPC
    <3>3. OnlyOf(q) /\ pc'[q] = "dispatch" BY <1>1, <3>1, <3>2, GotoOnly DEF IInv
    <3>4. dep'[q] = t /\ seen'[q] = a BY <1>1, <3>1 DEF IInv, Locals
    <3> QED BY <1>1, <1>2, <3>3, <3>4 DEF Proper
  <2>2. CASE ~Enqueueable(s, a)
    <3>1. UNCHANGED <<procVars, nRuns>> BY <1>1, <2>2 DEF CreateTask, procVars, runVars
    <3> QED BY <1>1, <3>1, Unmoved DEF procVars
  <2> QED BY <2>1, <2>2
<1>4. \A b : ~Ahead(q, b) BY <1>1, NotAhead DEF InWalk
<1>5. Tables'
  <2>1. status' \in [Tasks -> Status \cup {"absent", "gone"}] /\ quiet' \in [Tasks -> BOOLEAN]
    BY <1>1, SetStatusTyped DEF IInv
  <2>2. edits' \in 0..MaxEdits BY EditTyped DEF CreateTask, IInv
  <2> QED BY <1>1, <2>1, <2>2 DEF IInv, Tables
<1>6. BoardStep(q) BY <1>1, <1>4, BoardSet DEF IInv
<1> QED BY <1>1, <1>3, <1>5, <1>6, MoveOK DEF runVars, IInv, RunTable

LEMMA StopOK == ASSUME IInv, NEW q \in Requests, Stop(q) PROVE IInv'
<1>1. pc[q] \in {"restart", "stop"} /\ q \in Procs /\ q \notin Runs /\ Proper(q)
      /\ runLog' = [r \in Runs |-> IF r \in Latest(RunningOf(job[q])) THEN "STOPPED" ELSE runLog[r]]
      /\ UNCHANGED <<tableVars, nRuns, runTask, runFor, job, want, seen, left, new, boundVars>>
  BY Kinds DEF Stop, IInv
<1>2. job[q] \in Tasks /\ seen[q] \in Assignee /\ left[q] = {} BY <1>1 DEF Proper, InWalk
<1>3. OnlyOf(q) /\ pc'[q] \in {"create", "remove"} /\ Proper(q)'
  <2>1. {"create", "remove"} \subseteq Places \cap RequestPC BY DEF Places, RequestPC, WalkPC
  <2>2. CASE At(q, "restart")
    <3>1. Goto(q, "create") /\ dep' = [dep EXCEPT ![q] = job[q]] BY <2>2 DEF Stop
    <3>2. OnlyOf(q) /\ pc'[q] = "create" BY <1>1, <1>2, <2>1, <3>1, GotoOnly DEF IInv
    <3>3. dep'[q] = job[q] BY <1>1, <3>1 DEF IInv, Locals
    <3> QED BY <1>1, <1>2, <3>2, <3>3 DEF Proper
  <2>3. CASE ~At(q, "restart")
    <3>1. Goto(q, "remove") /\ dep' = dep BY <2>3 DEF Stop
    <3>2. OnlyOf(q) /\ pc'[q] = "remove" BY <1>1, <2>1, <3>1, GotoOnly DEF IInv
    <3> QED BY <1>1, <1>2, <3>2 DEF Proper
  <2> QED BY <2>2, <2>3
<1>4. \A b : ~Ahead(q, b) BY <1>1, NotAhead DEF InWalk
<1>5. Tables' BY <1>1 DEF tableVars, boundVars, IInv, Tables
<1>6. RunTable' /\ nRuns' = nRuns BY <1>1 DEF IInv, RunTable
<1>7. BoardStep(q) BY <1>1, <1>4, BoardKept DEF tableVars
<1> QED BY <1>1, <1>3, <1>5, <1>6, <1>7, MoveOK DEF tableVars

LEMMA RemoveOK == ASSUME IInv, NEW q \in Requests, Remove(q) PROVE IInv'
<1>1. pc[q] = "remove" /\ q \in Procs /\ q \notin Runs /\ Proper(q)
      /\ UNCHANGED <<status, quiet, deps, coordinator, runVars, boundVars>>
  BY Kinds DEF Remove, At, IInv
<1>2. job[q] \in Tasks /\ seen[q] \in Assignee /\ left[q] = {} BY <1>1 DEF Proper, InWalk
<1>3. \A b : ~Ahead(q, b) BY <1>1, NotAhead DEF InWalk
<1>4. Tables'
  <2>1. assignee' \in [Tasks -> Assignee] /\ deleted' \in [Tasks -> BOOLEAN]
    BY DEF Remove, IInv, Tables, Assignee
  <2> QED BY <1>1, <2>1 DEF boundVars, IInv, Tables
<1>5. CASE Exists(job[q]) /\ seen[q] # "none"
  <2>1. Goto(q, "next") /\ UNCHANGED <<job, want, seen, left, dep, new>> BY <1>5 DEF Remove
  <2>2. "next" \in Places /\ "next" \in RequestPC BY DEF Places, RequestPC
  <2>3. OnlyOf(q) /\ pc'[q] = "next" BY <1>1, <2>1, <2>2, GotoOnly DEF IInv
  <2>4. Proper(q)' BY <1>1, <1>2, <2>1, <2>3 DEF Proper
  <2> QED BY <1>1, <1>3, <1>4, <2>3, <2>4, GoOn
<1>6. CASE ~(Exists(job[q]) /\ seen[q] # "none")
  <2>1. Advance(q, {}, pc) BY <1>6 DEF Remove, Answer
  <2> QED BY <1>1, <1>3, <1>4, <2>1, AdvanceKept
<1> QED BY <1>5, <1>6

LEMMA NextTaskOK == ASSUME IInv, NEW q \in Requests, NextTask(q) PROVE IInv'
<1>1. pc[q] = "next" /\ q \in Procs /\ q \notin Runs /\ Proper(q)
      /\ UNCHANGED <<tableVars, runVars, boundVars>>
  BY Kinds DEF NextTask, At, IInv
<1>2. seen[q] \in Assignee /\ left[q] = {} BY <1>1 DEF Proper, InWalk
<1>3. \A b : ~Ahead(q, b) BY <1>1, NotAhead DEF InWalk
<1>4. Tables' BY <1>1 DEF tableVars, boundVars, IInv, Tables
<1>5. CASE Answer(q)
  BY <1>1, <1>3, <1>4, <1>5, AdvanceKept DEF Answer, tableVars
<1>6. ASSUME NEW t \in NextTasks(seen[q]), Goto(q, "dispatch"), dep' = [dep EXCEPT ![q] = t],
             UNCHANGED <<job, want, seen, left, new>>
      PROVE  IInv'
  <2>1. t \in Tasks BY DEF NextTasks
  <2>2. "dispatch" \in Places /\ "dispatch" \in RequestPC BY DEF Places, RequestPC, WalkPC
  <2>3. OnlyOf(q) /\ pc'[q] = "dispatch" BY <1>1, <1>6, <2>1, <2>2, GotoOnly DEF IInv
  <2>4. dep'[q] = t BY <1>1, <1>6 DEF IInv, Locals
  <2>5. Proper(q)' BY <1>1, <1>2, <1>6, <2>1, <2>3, <2>4 DEF Proper
  <2> QED BY <1>1, <1>3, <1>4, <2>3, <2>5, GoOn DEF tableVars
<1> QED BY <1>5, <1>6 DEF NextTask

LEMMA RestoreOK == ASSUME IInv, NEW t \in Tasks, Restore(t) PROVE IInv'
<1>1. Tables' BY DEF Restore, boundVars, IInv, Tables
<1>2. RunTable' BY DEF Restore, runVars, IInv, RunTable
<1> QED BY <1>1, <1>2, NobodyMoves DEF Restore, runVars

LEMMA SetCoordinatorOK == ASSUME IInv, SetCoordinator PROVE IInv'
<1>1. Tables' BY EditTyped DEF SetCoordinator, IInv, Tables
<1>2. RunTable' BY DEF SetCoordinator, runVars, IInv, RunTable
<1> QED BY <1>1, <1>2, NobodyMoves DEF SetCoordinator, runVars

(* A blocker that is purged leaves its dependents quiet; all others are as before. *)
LEMMA PurgeOK == ASSUME IInv, NEW t \in Tasks, Purge(t) PROVE IInv'
<1>1. /\ status' = [status EXCEPT ![t] = "gone"]
      /\ quiet' = [b \in Tasks |-> quiet[b] \/ b \in Dependents(t)]
      /\ deps' = {d \in deps : t \notin {d[1], d[2]}}
      /\ UNCHANGED <<assignee, deleted, coordinator, nRuns, runTask, runFor, procVars, boundVars>>
  BY DEF Purge
<1>2. Tables'
  <2>1. status' \in [Tasks -> Status \cup {"absent", "gone"}] /\ quiet' \in [Tasks -> BOOLEAN]
    BY <1>1 DEF IInv, Tables
  <2> QED BY <1>1, <2>1 DEF boundVars, IInv, Tables
<1>3. RunTable' BY <1>1 DEF Purge, IInv, RunTable
<1>4. Locals' BY <1>1 DEF IInv, Locals, procVars
<1>5. \A p \in Procs : Proper(p)' BY <1>1, Unmoved
<1>6. Creations' BY <1>1 DEF IInv, Creations, At, procVars
<1>7. ASSUME NEW b \in Tasks, Free(b)' PROVE quiet'[b] \/ \E p \in Procs : Ahead(p, b)'
  <2>1. b # t /\ status[b] = "BLOCKED" BY <1>1, <1>7 DEF Free, IInv, Tables
  <2>2. CASE b \in Dependents(t) BY <1>1, <2>2
  <2>3. CASE b \notin Dependents(t)
    <3>1. \A a \in Tasks : <<a, b>> \in deps' <=> <<a, b>> \in deps
      BY <1>1, <2>1, <2>3 DEF Dependents
    <3>2. <<t, b>> \notin deps BY <2>3 DEF Dependents
    <3>3. \A a \in Tasks \ {t} : status'[a] = status[a] BY <1>1 DEF IInv, Tables
    <3>4. OpenBlockers(b) = {} BY <1>7, <3>1, <3>2, <3>3 DEF Free, OpenBlockers, Blockers
    <3>5. quiet[b] \/ \E p \in Procs : Ahead(p, b) BY <2>1, <3>4 DEF IInv, Settled, Free
    <3>6. ASSUME NEW p \in Procs, Ahead(p, b) PROVE Ahead(p, b)'
      <4>1. \A a : b \in Dependents(a) => b \in Dependents(a)'
        BY <1>1, <2>1, <3>2 DEF Dependents
      <4> QED BY <1>1, <3>6, <4>1 DEF Ahead, At, procVars
    <3> QED BY <1>1, <3>5, <3>6
  <2> QED BY <2>2, <2>3
<1> QED BY <1>2, <1>3, <1>4, <1>5, <1>6, <1>7 DEF IInv, Settled

-----------------------------------------------------------------------------
(* The walk over the dependents                                            *)

LEMMA FetchDepsOK == ASSUME IInv, NEW p \in Procs, FetchDeps(p) PROVE IInv'
<1>1. pc[p] = "deps" /\ Advance(p, Dependents(job[p]), pc) /\ UNCHANGED <<tableVars, runVars, boundVars>>
  BY DEF FetchDeps, At
<1>2. left[p] = {} BY <1>1 DEF IInv, Proper, InWalk
<1>3. Dependents(job[p]) \in SUBSET Tasks BY DEF Dependents
<1>4. \A b : Ahead(p, b) => b \in Dependents(job[p]) BY <1>1, <1>2 DEF Ahead, At
<1>5. Tables' BY <1>1 DEF tableVars, boundVars, IInv, Tables
<1> QED BY <1>1, <1>3, <1>4, <1>5, AdvanceKept DEF tableVars

LEMMA CountOK == ASSUME IInv, NEW p \in Procs, Count(p) PROVE IInv'
<1>1. pc[p] = "count" /\ UNCHANGED <<tableVars, runVars, boundVars>> /\ Proper(p) /\ left[p] \subseteq Tasks
  BY DEF Count, At, IInv, Locals
<1>2. PICK b \in left[p] :
         IF OpenBlockers(b) # {}
         THEN Advance(p, left[p] \ {b}, pc)
         ELSE /\ Goto(p, Examine(p, b))
              /\ left' = [left EXCEPT ![p] = @ \ {b}]
              /\ dep'  = [dep EXCEPT ![p] = b]
              /\ UNCHANGED <<job, want, seen, new>>
  BY DEF Count
<1>3. \A c : Ahead(p, c) <=> c \in left[p] BY <1>1 DEF Ahead, At
<1>4. Tables' BY <1>1 DEF tableVars, boundVars, IInv, Tables
<1>5. CASE OpenBlockers(b) # {}
  <2>1. left[p] \ {b} \in SUBSET Tasks BY <1>1
  <2>2. \A c \in Tasks : Free(c) /\ Ahead(p, c) => c \in left[p] \ {b} BY <1>3, <1>5 DEF Free
  <2> QED BY <1>1, <1>2, <1>4, <1>5, <2>1, <2>2, AdvanceKept DEF tableVars
<1>6. CASE OpenBlockers(b) = {}
  <2>1. Goto(p, Examine(p, b)) /\ left' = [left EXCEPT ![p] = left[p] \ {b}] /\ dep' = [dep EXCEPT ![p] = b]
        /\ UNCHANGED <<job, want, seen, new>>
    BY <1>2, <1>6
  <2>2. Examine(p, b) \in {"lookup", "release"} /\ Examine(p, b) \in Places
        /\ Examine(p, b) \in RequestPC /\ Examine(p, b) \in RunPC
    BY DEF Examine, Places, RequestPC, RunPC, WalkPC
  <2>3. left[p] \ {b} \in SUBSET Tasks /\ b \in Tasks BY <1>1
  <2>4. OnlyOf(p) /\ pc'[p] \in {"lookup", "release"}
    BY <2>1, <2>2, <2>3, GotoOnly DEF IInv
  <2>5. left'[p] = left[p] \ {b} /\ dep'[p] = b BY <2>1 DEF IInv, Locals
  <2>6. Proper(p)' BY <1>1, <2>1, <2>3, <2>4, <2>5 DEF Proper, InWalk, runVars
  <2>7. \A c \in Tasks : Ahead(p, c) => Ahead(p, c)' BY <1>3, <2>4, <2>5 DEF Ahead
  <2> QED BY <1>1, <1>4, <2>4, <2>6, <2>7, GoOn DEF tableVars
<1> QED BY <1>5, <1>6

LEMMA LookupOK == ASSUME IInv, NEW q \in Requests, Lookup(q) PROVE IInv'
<1>1. pc[q] = "lookup" /\ q \in Procs /\ q \notin Runs /\ Proper(q) /\ left[q] \in SUBSET Tasks
      /\ UNCHANGED <<tableVars, runVars, boundVars>>
  BY Kinds DEF Lookup, At, IInv, Locals
<1>2. \A b : Ahead(q, b) <=> b \in left[q] \/ b = dep[q] BY <1>1 DEF Ahead, At
<1>3. Tables' BY <1>1 DEF tableVars, boundVars, IInv, Tables
<1>4. CASE status[dep[q]] = "BLOCKED"
  <2>1. Goto(q, "release") /\ seen' = [seen EXCEPT ![q] = assignee[dep[q]]]
        /\ UNCHANGED <<job, want, left, dep, new>>
    BY <1>4 DEF Lookup
  <2>2. dep[q] \in Tasks /\ assignee[dep[q]] \in Assignee BY <1>1 DEF Proper, IInv, Tables
  <2>3. "release" \in Places /\ "release" \in RequestPC BY DEF Places, RequestPC, WalkPC
  <2>4. OnlyOf(q) /\ pc'[q] = "release" BY <1>1, <2>1, <2>2, <2>3, GotoOnly DEF IInv
  <2>5. Proper(q)' BY <1>1, <2>1, <2>2, <2>4 DEF Proper, InWalk
  <2>6. \A b : Ahead(q, b) => Ahead(q, b)' BY <1>2, <2>1, <2>4 DEF Ahead
  <2> QED BY <1>1, <1>3, <2>4, <2>5, <2>6, GoOn DEF tableVars
<1>5. CASE status[dep[q]] # "BLOCKED"
  <2>1. Advance(q, left[q], pc) BY <1>5 DEF Lookup
  <2>2. \A b \in Tasks : Free(b) /\ Ahead(q, b) => b \in left[q] BY <1>2, <1>5 DEF Free
  <2> QED BY <1>1, <1>3, <2>1, <2>2, AdvanceKept DEF tableVars
<1> QED BY <1>4, <1>5

(* The released task is not blocked any more; the others are still to be looked at. *)
LEMMA ReleaseBoard ==
  ASSUME IInv, NEW p \in Procs, pc[p] = "release", NEW a \in Status \cup Assignee,
         SetStatus(dep[p], Released(a), FALSE), KeepTask, UNCHANGED boundVars, left'[p] = left[p]
  PROVE  Tables' /\ BoardStep(p)
<1>1. dep[p] \in Tasks /\ Tables BY DEF IInv, Proper
<1>2. Released(a) \in Status /\ Released(a) \notin {"BLOCKED", "DONE"} BY DEF Released, Status
<1>3. status' \in [Tasks -> Status \cup {"absent", "gone"}] /\ quiet' \in [Tasks -> BOOLEAN]
  BY <1>1, <1>2, SetStatusTyped
<1>4. Tables' BY <1>1, <1>3 DEF KeepTask, boundVars, Tables
<1>5. \A b \in Tasks : Ahead(p, b) => Ahead(p, b)' \/ (b = dep[p] /\ Released(a) # "BLOCKED")
  BY <1>2 DEF Ahead, At
<1>6. BoardStep(p)
  <2>1. deps' = deps BY DEF KeepTask
  <2> QED BY <1>1, <1>2, <1>5, <2>1, BoardSet
<1> QED BY <1>4, <1>6

LEMMA ReleaseByRequestOK == ASSUME IInv, NEW q \in Procs, ReleaseByRequest(q) PROVE IInv'
<1>1. pc[q] = "release" /\ q \in Requests /\ q \notin Runs /\ Proper(q) /\ left[q] \in SUBSET Tasks
      /\ KeepTask /\ UNCHANGED <<runVars, boundVars>> /\ dep[q] \in Tasks
      /\ seen[q] \in Status \cup Assignee
  BY Kinds DEF ReleaseByRequest, At, IInv, Locals, Proper
<1>2. deps' = deps BY <1>1 DEF KeepTask
<1>3. CASE Exists(dep[q])
  <2>1. SetStatus(dep[q], Released(seen[q]), FALSE) BY <1>3 DEF ReleaseByRequest
  <2>2. CASE seen[q] = "ai" /\ assignee[dep[q]] = "ai"
    <3>1. Goto(q, "dispatch") /\ UNCHANGED <<job, want, seen, left, dep, new>>
      BY <1>3, <2>2 DEF ReleaseByRequest
    <3>2. "dispatch" \in Places /\ "dispatch" \in RequestPC BY DEF Places, RequestPC, WalkPC
    <3>3. OnlyOf(q) /\ pc'[q] = "dispatch" BY <1>1, <3>1, <3>2, GotoOnly DEF IInv
    <3>4. Proper(q)' BY <1>1, <2>2, <3>1, <3>3 DEF Proper, InWalk, Assignee
    <3>5. Tables' /\ BoardStep(q) BY <1>1, <2>1, <3>1, ReleaseBoard
    <3> QED BY <1>1, <1>2, <3>3, <3>4, <3>5, MoveOK DEF runVars, IInv, RunTable
  <2>3. CASE ~(seen[q] = "ai" /\ assignee[dep[q]] = "ai")
    <3>1. Advance(q, left[q], pc) BY <1>3, <2>3 DEF ReleaseByRequest
    <3>2. left'[q] = left[q] BY <1>1, <3>1, AdvanceOnly DEF IInv
    <3>3. Tables' /\ BoardStep(q) BY <1>1, <2>1, <3>2, ReleaseBoard
    <3> QED BY <1>1, <1>2, <3>1, <3>3, AdvanceOK
  <2> QED BY <2>2, <2>3
<1>4. CASE ~Exists(dep[q])
  <2>1. Advance(q, {}, pc) /\ quiet' = [b \in Tasks |-> quiet[b] \/ b \in left[q]] /\ status' = status
    BY <1>4 DEF ReleaseByRequest, Answer
  <2>2. quiet' \in [Tasks -> BOOLEAN] /\ (\A b \in Tasks : quiet[b] \/ b \in left[q] => quiet'[b])
    BY <2>1 DEF IInv, Tables
  <2>3. Tables' BY <1>1, <2>1, <2>2 DEF KeepTask, boundVars, IInv, Tables
  <2>4. \A b \in Tasks : Free(b) /\ Ahead(q, b) => quiet'[b]
    BY <1>1, <1>4, <2>2 DEF Ahead, At, Free, Exists
  <2> QED BY <1>1, <1>2, <2>1, <2>2, <2>3, <2>4, AdvanceKept
<1> QED BY <1>3, <1>4

LEMMA ReleaseByToolOK == ASSUME IInv, NEW r \in Procs, ReleaseByTool(r) PROVE IInv'
<1>1. pc[r] = "release" /\ r \in Runs /\ r \notin Requests /\ Proper(r) /\ left[r] \in SUBSET Tasks
      /\ KeepTask /\ UNCHANGED <<runVars, boundVars>> /\ dep[r] \in Tasks
      /\ assignee[dep[r]] \in Status \cup Assignee
  BY Kinds DEF ReleaseByTool, At, IInv, Locals, Proper, Tables
<1>2. deps' = deps BY <1>1 DEF KeepTask
<1>3. CASE status[dep[r]] = "BLOCKED"
  <2>1. SetStatus(dep[r], Released(assignee[dep[r]]), FALSE) BY <1>3 DEF ReleaseByTool
  <2>2. CASE assignee[dep[r]] = "ai"
    <3>1. Goto(r, "create") /\ seen' = [seen EXCEPT ![r] = "ai"] /\ UNCHANGED <<job, want, left, dep, new>>
      BY <1>3, <2>2 DEF ReleaseByTool
    <3>2. "create" \in Places /\ "create" \in RunPC /\ "ai" \in Assignee
      BY DEF Places, RunPC, WalkPC, Assignee
    <3>3. OnlyOf(r) /\ pc'[r] = "create" BY <1>1, <3>1, <3>2, GotoOnly DEF IInv
    <3>4. seen'[r] = "ai" BY <1>1, <3>1 DEF IInv, Locals
    <3>5. Proper(r)' BY <1>1, <3>1, <3>2, <3>3, <3>4 DEF Proper, InWalk, runVars
    <3>6. Tables' /\ BoardStep(r) BY <1>1, <2>1, <3>1, ReleaseBoard
    <3> QED BY <1>1, <1>2, <3>3, <3>5, <3>6, MoveOK DEF runVars, IInv, RunTable
  <2>3. CASE assignee[dep[r]] # "ai"
    <3>1. Advance(r, left[r], pc) BY <1>3, <2>3 DEF ReleaseByTool
    <3>2. left'[r] = left[r] BY <1>1, <3>1, AdvanceOnly DEF IInv
    <3>3. Tables' /\ BoardStep(r) BY <1>1, <2>1, <3>2, ReleaseBoard
    <3> QED BY <1>1, <1>2, <3>1, <3>3, AdvanceOK
  <2> QED BY <2>2, <2>3
<1>4. CASE status[dep[r]] # "BLOCKED"
  <2>1. Advance(r, left[r], pc) /\ UNCHANGED <<status, quiet>> BY <1>4 DEF ReleaseByTool
  <2>2. Tables' BY <1>1, <2>1 DEF KeepTask, boundVars, IInv, Tables
  <2>3. \A b \in Tasks : Free(b) /\ Ahead(r, b) => b \in left[r]
    BY <1>1, <1>4 DEF Ahead, At, Free
  <2> QED BY <1>1, <1>2, <2>1, <2>2, <2>3, AdvanceKept
<1> QED BY <1>3, <1>4

LEMMA DispatchOK == ASSUME IInv, NEW q \in Requests, Dispatch(q) PROVE IInv'
<1>1. pc[q] = "dispatch" /\ q \in Procs /\ q \notin Runs /\ Proper(q) /\ left[q] \in SUBSET Tasks
      /\ UNCHANGED <<tableVars, runVars, boundVars>>
  BY Kinds DEF Dispatch, At, IInv, Locals
<1>2. \A b : Ahead(q, b) <=> b \in left[q] BY <1>1 DEF Ahead, At
<1>3. Tables' BY <1>1 DEF tableVars, boundVars, IInv, Tables
<1>4. CASE RunningOf(dep[q]) # {}
  BY <1>1, <1>2, <1>3, <1>4, AdvanceKept DEF Dispatch, tableVars
<1>5. CASE RunningOf(dep[q]) = {}
  <2>1. Goto(q, "create") /\ UNCHANGED <<job, want, seen, left, dep, new>> BY <1>5 DEF Dispatch
  <2>2. "create" \in Places /\ "create" \in RequestPC BY DEF Places, RequestPC, WalkPC
  <2>3. OnlyOf(q) /\ pc'[q] = "create" BY <1>1, <2>1, <2>2, GotoOnly DEF IInv
  <2>4. Proper(q)' BY <1>1, <2>1, <2>3 DEF Proper, InWalk
  <2>5. \A b : Ahead(q, b) => Ahead(q, b)' BY <1>2, <2>1 DEF Ahead
  <2> QED BY <1>1, <1>3, <2>3, <2>4, <2>5, GoOn DEF tableVars
<1> QED BY <1>4, <1>5

-----------------------------------------------------------------------------
(* Runs are created and queued.                                            *)

LEMMA CreateLogOK == ASSUME IInv, NEW p \in Procs, CreateLog(p) PROVE IInv'
<1>1. PICK r \in Nat : r = nRuns + 1 BY DEF IInv, RunTable
<1>2. /\ pc[p] = "create" /\ nRuns < MaxRuns /\ Proper(p)
      /\ nRuns' = r
      /\ runTask' = [runTask EXCEPT ![r] = dep[p]]
      /\ runLog'  = [runLog EXCEPT ![r] = "RUNNING"]
      /\ runFor'  = [runFor EXCEPT ![r] = seen[p]]
      /\ pc'   = [pc EXCEPT ![p] = "xadd", ![r] = "logged"]
      /\ job'  = [job EXCEPT ![r] = dep[p]]
      /\ want' = [want EXCEPT ![r] = "DONE"]
      /\ new'  = [new EXCEPT ![p] = r]
      /\ UNCHANGED <<tableVars, seen, left, dep, boundVars>>
  BY <1>1 DEF CreateLog, At, IInv
<1>3. r \in Runs /\ r \in Procs /\ r \notin Requests /\ r \in 0..MaxRuns
  <2>1. nRuns \in 0..MaxRuns /\ MaxRuns \in Nat BY Kinds DEF IInv, RunTable
  <2>2. r \in Runs /\ r \in 0..MaxRuns BY <1>1, <1>2, <2>1 DEF Runs
  <2> QED BY <2>2, Kinds
<1>4. pc[r] = "none" /\ p # r /\ left[r] = {}
  <2>1. Proper(r) /\ ~(r <= nRuns) BY <1>1, <1>3 DEF IInv, RunTable
  <2>2. pc[r] = "none" BY <1>3, <2>1 DEF Proper
  <2> QED BY <1>2, <2>1, <2>2 DEF Proper, InWalk
<1>5. dep[p] \in Tasks /\ seen[p] \in Assignee BY <1>2 DEF Proper
<1>6. Tables' BY <1>2 DEF tableVars, boundVars, IInv, Tables
<1>7. RunTable' BY <1>2, <1>3, <1>5 DEF IInv, RunTable
<1>8. pc'[p] = "xadd" /\ pc'[r] = "logged" /\ (\A x \in Procs \ {p, r} : pc'[x] = pc[x])
  BY <1>2, <1>3, <1>4 DEF IInv, Locals
<1>9. job'[r] = dep[p] /\ want'[r] = "DONE"
      /\ (\A x \in Procs \ {r} : job'[x] = job[x] /\ want'[x] = want[x])
  BY <1>2, <1>3 DEF IInv, Locals
<1>10. new'[p] = r /\ (\A x \in Procs \ {p} : new'[x] = new[x]) BY <1>2 DEF IInv, Locals
<1>11. Locals'
  <2>1. pc' \in [Procs -> Places]
    BY <1>2, <1>3 DEF IInv, Locals, Places, RunPC, WalkPC
  <2>2. (\A q \in Requests : pc'[q] \in RequestPC) /\ (\A x \in Runs : pc'[x] \in RunPC)
    BY <1>3, <1>8, Kinds DEF IInv, Locals, RequestPC, RunPC, WalkPC
  <2>3. job' \in [Procs -> Tasks \cup {Null}] /\ want' \in [Procs -> Status \cup Assignee]
        /\ new' \in [Procs -> 0..MaxRuns]
    BY <1>2, <1>3, <1>5 DEF IInv, Locals, Status
  <2> QED BY <1>2, <2>1, <2>2, <2>3 DEF IInv, Locals
<1>12. ASSUME NEW x \in Procs PROVE Proper(x)'
  <2>1. Proper(x) /\ nRuns < nRuns' /\ nRuns \in Nat /\ nRuns' \in Nat
    BY <1>1, <1>2 DEF IInv, RunTable
  <2>2. UNCHANGED <<seen, left, dep>> BY <1>2
  <2>3. CASE x = p
    <3>1. x \in Runs => job[x] \in Tasks /\ want[x] \in {"DONE", "TODO"} /\ x <= nRuns'
      BY <1>2, <2>1, <2>3, Kinds DEF Proper, Runs
    <3> QED BY <1>4, <1>5, <1>8, <1>9, <2>2, <2>3, <3>1 DEF Proper, InWalk
  <2>4. CASE x = r BY <1>2, <1>3, <1>4, <1>5, <1>8, <1>9, <2>2, <2>4 DEF Proper
  <2>5. CASE x # p /\ x # r
    <3>1. pc'[x] = pc[x] /\ job'[x] = job[x] /\ want'[x] = want[x] BY <1>8, <1>9, <2>5
    <3>2. x \in Runs /\ x <= nRuns => x <= nRuns' BY <2>1 DEF Runs
    <3> QED BY <2>1, <2>2, <3>1, <3>2 DEF Proper
  <2> QED BY <2>3, <2>4, <2>5
<1>13. Creations'
  <2>1. ASSUME NEW x \in Procs, pc'[x] = "xadd", x # p
        PROVE  /\ pc[x] = "xadd" /\ new'[x] = new[x] /\ new[x] \in Runs
               /\ pc'[new[x]] = "logged" /\ new[x] # r
    <3>1. x # r /\ pc[x] = "xadd" /\ new'[x] = new[x] BY <1>8, <1>10, <2>1
    <3>2. new[x] \in Runs /\ pc[new[x]] = "logged" BY <3>1 DEF IInv, Creations, At
    <3> QED BY <1>2, <1>4, <1>8, <3>1, <3>2, Kinds
  <2>2. new'[p] \in Runs /\ pc'[new'[p]] = "logged" BY <1>3, <1>8, <1>10
  <2> SUFFICES ASSUME NEW x \in Procs, pc'[x] = "xadd"
               PROVE  /\ new'[x] \in Runs /\ pc'[new'[x]] = "logged"
                      /\ \A y \in Procs \ {x} : pc'[y] = "xadd" => new'[y] # new'[x]
    BY DEF Creations, At
  <2>3. CASE x = p BY <1>10, <2>1, <2>2, <2>3
  <2>4. CASE x # p
    <3>1. \A y \in Procs \ {x} : pc'[y] = "xadd" => new'[y] # new'[x]
      BY <1>10, <2>1, <2>4 DEF IInv, Creations, At
    <3> QED BY <2>1, <2>4, <3>1
  <2> QED BY <2>3, <2>4
<1>14. ASSUME NEW b \in Tasks PROVE Settled(b)'
  <2>1. Settled(b) BY DEF IInv
  <2>2. ASSUME NEW x \in Procs, Ahead(x, b) PROVE Ahead(x, b)'
    <3>1. UNCHANGED <<left, dep, deps>> BY <1>2 DEF tableVars
    <3>2. CASE x \in {p, r} BY <1>2, <1>4, <2>2, <3>1, <3>2 DEF Ahead, At
    <3>3. CASE x \notin {p, r} BY <1>8, <1>9, <2>2, <3>1, <3>3 DEF Ahead, At, Dependents
    <3> QED BY <3>2, <3>3
  <2> QED BY <1>2, <2>1, <2>2 DEF Settled, Free, OpenBlockers, Blockers, tableVars
<1> QED BY <1>6, <1>7, <1>11, <1>12, <1>13, <1>14 DEF IInv

LEMMA XaddOK == ASSUME IInv, NEW p \in Procs, Xadd(p) PROVE IInv'
<1> DEFINE n == new[p]  S == left[p]
<1>1. pc[p] = "xadd" /\ Proper(p) /\ UNCHANGED <<tableVars, runVars, boundVars>>
      /\ Advance(p, S, [pc EXCEPT ![n] = "queued"])
  BY DEF Xadd, At, IInv
<1>2. n \in Runs /\ n \in Procs /\ n \notin Requests /\ pc[n] = "logged" /\ p # n
      /\ \A q \in Procs \ {p} : pc[q] = "xadd" => new[q] # n
  BY <1>1, Kinds DEF IInv, Creations, At
<1>3. S \in SUBSET Tasks BY DEF IInv, Locals
<1>4. /\ pc'[p] = IF S = {} THEN Resting(p) ELSE "count"
      /\ pc'[n] = "queued"
      /\ \A x \in Procs \ {p, n} : pc'[x] = pc[x]
  BY <1>1, <1>2 DEF Advance, IInv, Locals
<1>5. pc'[p] \in {"idle", "save", "count"} /\ (S # {} => pc'[p] = "count") BY <1>4 DEF Resting
<1>6. /\ left' = left /\ (\A x \in Procs \ {p} : dep'[x] = dep[x] /\ new'[x] = new[x]
                                                  /\ seen'[x] = seen[x])
      /\ (\A x \in Procs \ {p} : job'[x] = job[x] /\ want'[x] = want[x])
      /\ p \in Runs => job'[p] = job[p] /\ want'[p] = want[p]
  BY <1>1, Kinds DEF Advance, IInv, Locals
<1>7. Tables' BY <1>1 DEF tableVars, boundVars, IInv, Tables
<1>8. RunTable' BY <1>1 DEF runVars, IInv, RunTable
<1>9. Locals'
  <2>1. pc' \in [Procs -> Places]
    BY <1>1, <1>2 DEF Advance, Resting, IInv, Locals, Places, RequestPC, RunPC, WalkPC
  <2>2. (\A q \in Requests : pc'[q] \in RequestPC) /\ (\A x \in Runs : pc'[x] \in RunPC)
    BY <1>2, <1>4, Kinds DEF Resting, IInv, Locals, RequestPC, RunPC, WalkPC
  <2>3. job' \in [Procs -> Tasks \cup {Null}] /\ want' \in [Procs -> Status \cup Assignee]
        /\ seen' \in [Procs -> Status \cup Assignee]
    BY <1>1 DEF Advance, IInv, Locals, Assignee
  <2>4. left' \in [Procs -> SUBSET Tasks] /\ dep' \in [Procs -> Tasks \cup {Null}]
        /\ new' \in [Procs -> 0..MaxRuns]
    BY <1>1, Kinds DEF Advance, IInv, Locals
  <2> QED BY <2>1, <2>2, <2>3, <2>4 DEF Locals
<1>10. ASSUME NEW x \in Procs PROVE Proper(x)'
  <2>1. Proper(x) /\ nRuns' = nRuns BY <1>1 DEF IInv, runVars
  <2>2. CASE x = p BY <1>1, <1>5, <1>6, <2>1, <2>2 DEF Proper, InWalk
  <2>3. CASE x = n BY <1>2, <1>4, <1>6, <2>1, <2>3 DEF Proper, InWalk
  <2>4. CASE x # p /\ x # n BY <1>4, <1>6, <2>1, <2>4 DEF Proper
  <2> QED BY <2>2, <2>3, <2>4
<1>11. Creations'
  <2>1. ASSUME NEW x \in Procs, pc'[x] = "xadd"
        PROVE  /\ pc[x] = "xadd" /\ new'[x] = new[x] /\ new[x] \in Runs
               /\ pc'[new[x]] = "logged"
    <3>1. x # p /\ x # n BY <1>4, <1>5, <2>1
    <3>2. pc[x] = "xadd" /\ new'[x] = new[x] /\ new[x] # n BY <1>2, <1>4, <1>6, <2>1, <3>1
    <3>3. new[x] \in Runs /\ pc[new[x]] = "logged" BY <3>2 DEF IInv, Creations, At
    <3> QED BY <1>1, <1>4, <3>2, <3>3, Kinds
  <2> QED BY <2>1 DEF IInv, Creations, At
<1>12. ASSUME NEW b \in Tasks PROVE Settled(b)'
  <2>1. Settled(b) BY DEF IInv
  <2>2. ASSUME NEW x \in Procs, Ahead(x, b) PROVE Ahead(x, b)'
    <3>1. CASE x \in {p, n} BY <1>1, <1>2, <1>6, <2>2, <3>1 DEF Ahead, At
    <3>2. CASE x \notin {p, n}
      BY <1>1, <1>4, <1>6, <2>2, <3>2 DEF Ahead, At, Dependents, tableVars
    <3> QED BY <3>1, <3>2
  <2> QED BY <1>1, <2>1, <2>2 DEF Settled, Free, OpenBlockers, Blockers, tableVars
<1> QED BY <1>7, <1>8, <1>9, <1>10, <1>11, <1>12 DEF IInv

(* A walk that is cut short leaves quiet what it had still to look at. *)
LEMMA AbandonOK ==
  ASSUME IInv, NEW p \in Procs, Abandon(p), pc[p] \notin {"none", "logged"}, faults' \in 0..MaxFaults
  PROVE  IInv'
<1>1. Advance(p, {}, pc) /\ quiet' = [t \in Tasks |-> quiet[t] \/ Ahead(p, t)]
      /\ KeepTask /\ UNCHANGED <<status, runVars, edits>>
  BY DEF Abandon, Answer
<1>2. quiet' \in [Tasks -> BOOLEAN] /\ (\A t \in Tasks : quiet[t] \/ Ahead(p, t) => quiet'[t])
  <2>1. \A t \in Tasks : (quiet[t] \/ Ahead(p, t)) \in BOOLEAN OBVIOUS
  <2> QED BY <1>1, <2>1
<1>3. Tables' BY <1>1, <1>2 DEF KeepTask, IInv, Tables
<1> QED BY <1>1, <1>2, <1>3, AdvanceKept DEF KeepTask

LEMMA FailsOK == ASSUME IInv, NEW p \in Procs, Fails(p) \/ NoTask(p) PROVE IInv'
<1>1. Abandon(p) /\ pc[p] \notin {"none", "logged"}
  BY DEF Fails, NoTask, At, RequestPC, WalkPC
<1>2. faults' \in 0..MaxFaults BY FaultTyped DEF Fails, NoTask, IInv, Tables
<1> QED BY <1>1, <1>2, AbandonOK

LEMMA WalkOK == ASSUME IInv, NEW p \in Procs, Walk(p) PROVE IInv'
BY FetchDepsOK, CountOK, ReleaseByRequestOK, ReleaseByToolOK, CreateLogOK, FailsOK, XaddOK DEF Walk

-----------------------------------------------------------------------------
(* A run                                                                   *)

(* A run writes the status of its own task and goes on; it walks if it has finished it. *)
LEMMA PutOK ==
  ASSUME IInv, NEW r \in Runs, pc[r] \in {"queued", "run", "block", "sync"},
         NEW s \in Status, NEW looks \in BOOLEAN, NEW l \in {"run", "deps", "save", "over"},
         Put(job[r], s, looks), Goto(r, l), KeepTask, UNCHANGED <<runVars, boundVars, OtherLocals>>,
         \/ want' = want
         \/ \E v \in {"DONE", "TODO"} : want' = [want EXCEPT ![r] = v],
         (looks /\ Exists(job[r])) => l = "deps"
  PROVE  IInv'
<1>1. r \in Procs /\ r \notin Requests /\ Proper(r) BY Kinds DEF IInv
<1>2. job[r] \in Tasks /\ left[r] = {} /\ want[r] \in {"DONE", "TODO"} /\ r <= nRuns
  BY <1>1 DEF Proper, InWalk
<1>3. OnlyOf(r) /\ pc'[r] = l
  <2>1. l \in Places /\ l \in RunPC BY DEF Places, RunPC, WalkPC
  <2>2. \/ want' = want
        \/ \E v \in Status \cup Assignee : want' = [want EXCEPT ![r] = v]
    BY DEF Status
  <2> QED BY <1>1, <2>1, <2>2, GotoOnly DEF IInv, OtherLocals
<1>4. want'[r] \in {"DONE", "TODO"} BY <1>1, <1>2 DEF IInv, Locals
<1>5. Proper(r)' BY <1>1, <1>2, <1>3, <1>4 DEF Proper, OtherLocals, runVars
<1>6. \A b : ~Ahead(r, b) BY <1>1, NotAhead DEF InWalk
<1>7. deps' = deps /\ Tables BY DEF KeepTask, IInv
<1>8. CASE Exists(job[r])
  <2>1. SetStatus(job[r], s, looks) BY <1>8 DEF Put
  <2>2. Tables'
    <3>1. status' \in [Tasks -> Status \cup {"absent", "gone"}] /\ quiet' \in [Tasks -> BOOLEAN]
      BY <1>2, <1>7, <2>1, SetStatusTyped
    <3> QED BY <3>1 DEF KeepTask, boundVars, IInv, Tables
  <2>3. looks => \A b \in Dependents(job[r]) : Ahead(r, b)'
    BY <1>3, <1>7, <1>8 DEF Ahead, At, Dependents, OtherLocals
  <2>4. BoardStep(r) BY <1>2, <1>6, <1>7, <2>1, <2>3, BoardSet
  <2> QED BY <1>1, <1>3, <1>5, <1>7, <2>2, <2>4, MoveOK DEF runVars, IInv, RunTable
<1>9. CASE ~Exists(job[r])
  <2>1. UNCHANGED <<status, quiet>> BY <1>9 DEF Put
  <2>2. Tables' BY <2>1 DEF KeepTask, boundVars, IInv, Tables
  <2> QED BY <1>1, <1>3, <1>5, <1>6, <1>7, <2>1, <2>2, GoOn
<1> QED BY <1>8, <1>9

(* A run goes on and leaves the board alone. *)
LEMMA RunGoesOn ==
  ASSUME IInv, NEW r \in Runs, pc[r] \in {"run", "link", "block", "save", "sync"},
         NEW l \in {"save", "sync", "over"}, Goto(r, l), Tables', RunTable',
         UNCHANGED <<status, quiet, deps, nRuns, job, seen, left, new>>,
         dep' = dep \/ dep' = [dep EXCEPT ![r] = Null],
         \/ want' = want
         \/ \E v \in {"DONE", "TODO"} : want' = [want EXCEPT ![r] = v]
  PROVE  IInv'
<1>1. r \in Procs /\ r \notin Requests /\ Proper(r) BY Kinds DEF IInv
<1>2. job[r] \in Tasks /\ left[r] = {} /\ want[r] \in {"DONE", "TODO"} /\ r <= nRuns
  BY <1>1 DEF Proper, InWalk
<1>3. OnlyOf(r) /\ pc'[r] = l
  <2>1. l \in Places /\ l \in RunPC BY DEF Places, RunPC
  <2>2. \/ want' = want
        \/ \E v \in Status \cup Assignee : want' = [want EXCEPT ![r] = v]
    BY DEF Status
  <2>3. dep' = dep \/ \E t \in Tasks \cup {Null} : dep' = [dep EXCEPT ![r] = t] OBVIOUS
  <2> QED BY <1>1, <2>1, <2>2, <2>3, GotoOnly DEF IInv
<1>4. want'[r] \in {"DONE", "TODO"} BY <1>1, <1>2 DEF IInv, Locals
<1>5. Proper(r)' BY <1>1, <1>2, <1>3, <1>4 DEF Proper
<1>6. \A b : ~Ahead(r, b) BY <1>1, NotAhead DEF InWalk
<1>7. BoardStep(r) BY <1>6, BoardKept
<1> QED BY <1>1, <1>3, <1>5, <1>7, MoveOK

LEMMA SetLogTyped ==
  ASSUME RunTable, NEW r \in Runs, NEW s \in {"RUNNING", "over"}, SetLog(r, s),
         UNCHANGED <<nRuns, runTask, runFor>>
  PROVE  RunTable'
BY DEF RunTable, SetLog

LEMMA LinkHumanOK == ASSUME IInv, NEW r \in Runs, LinkHuman(r) PROVE IInv'
<1>1. pc[r] = "link" /\ r \in Procs /\ r \notin Requests /\ Proper(r)
      /\ dep' = [dep EXCEPT ![r] = Null]
      /\ UNCHANGED <<status, quiet, assignee, deleted, coordinator, runVars, boundVars, job, seen,
                     left, new>>
  BY Kinds DEF LinkHuman, At, RunVarsKept, IInv
<1>2. job[r] \in Tasks /\ dep[r] \in Tasks /\ left[r] = {} /\ want[r] \in {"DONE", "TODO"} /\ r <= nRuns
  BY <1>1 DEF Proper, InWalk
<1>3. CASE Exists(dep[r]) /\ Exists(job[r])
  <2>1. Goto(r, "block") /\ deps' = deps \cup {<<dep[r], job[r]>>} /\ want' = want
    BY <1>3 DEF LinkHuman
  <2>2. "block" \in Places /\ "block" \in RunPC /\ Null \in Tasks \cup {Null} BY DEF Places, RunPC
  <2>3. OnlyOf(r) /\ pc'[r] = "block" BY <1>1, <2>1, <2>2, GotoOnly DEF IInv
  <2>4. Proper(r)' BY <1>1, <1>2, <2>1, <2>3 DEF Proper, runVars
  <2>5. Tables' BY <1>1, <1>2, <2>1 DEF boundVars, IInv, Tables
  <2>6. \A b : ~Ahead(r, b) BY <1>1, NotAhead DEF InWalk
  <2>7. \A b \in Tasks : Free(b)' => Free(b)
    BY <1>1, <2>1 DEF Free, OpenBlockers, Blockers
  <2>8. BoardStep(r) BY <1>1, <2>6, <2>7 DEF BoardStep
  <2> QED BY <1>1, <2>1, <2>3, <2>4, <2>5, <2>8, MoveOK DEF runVars, IInv, RunTable
<1>4. CASE ~(Exists(dep[r]) /\ Exists(job[r]))
  <2>1. Goto(r, "save") /\ deps' = deps /\ want' = [want EXCEPT ![r] = "TODO"]
    BY <1>4 DEF LinkHuman
  <2>2. Tables' BY <1>1, <2>1 DEF boundVars, IInv, Tables
  <2>3. RunTable' /\ nRuns' = nRuns BY <1>1 DEF runVars, IInv, RunTable
  <2> QED BY <1>1, <2>1, <2>2, <2>3, RunGoesOn
<1> QED BY <1>3, <1>4

LEMMA SyncOK == ASSUME IInv, NEW r \in Runs, Sync(r) PROVE IInv'
<1>1. pc[r] = "sync" /\ Goto(r, "over") /\ KeepTask /\ UNCHANGED <<runVars, boundVars, OtherLocals, want>>
  BY DEF Sync, At, RunVarsKept
<1>2. CASE want[r] = "DONE" \/ status[job[r]] = "IN_PROGRESS"
  <2>1. Put(job[r], want[r], FALSE) BY <1>2 DEF Sync
  <2>2. want[r] \in Status
    <3>1. r \in Procs /\ Proper(r) BY Kinds DEF IInv
    <3> QED BY <1>1, <3>1 DEF Proper, Status
  <2> QED BY <1>1, <2>1, <2>2, PutOK
<1>3. CASE ~(want[r] = "DONE" \/ status[job[r]] = "IN_PROGRESS")
  <2>1. UNCHANGED <<status, quiet>> BY <1>3 DEF Sync
  <2>2. Tables' BY <1>1, <2>1 DEF KeepTask, boundVars, IInv, Tables
  <2>3. RunTable' /\ nRuns' = nRuns BY <1>1 DEF runVars, IInv, RunTable
  <2> QED BY <1>1, <2>1, <2>2, <2>3, RunGoesOn DEF KeepTask, OtherLocals
<1> QED BY <1>2, <1>3

LEMMA CarryOK == ASSUME IInv, NEW r \in Runs, Carry(r) PROVE IInv'
<1>1. CASE Mark(r)
  <2>1. "IN_PROGRESS" \in Status BY DEF Status
  <2> QED BY <1>1, <2>1, PutOK DEF Mark, At, RunVarsKept
<1>2. CASE BlockForHuman(r)
  <2>1. "BLOCKED" \in Status BY DEF Status
  <2> QED BY <1>2, <2>1, PutOK DEF BlockForHuman, At, RunVarsKept
<1>3. CASE Save(r)
  <2>1. pc[r] = "save" /\ Goto(r, "sync") /\ UNCHANGED <<tableVars, nRuns, boundVars, want, OtherLocals>>
    BY <1>3 DEF Save, At
  <2>2. Tables' BY <2>1 DEF tableVars, boundVars, IInv, Tables
  <2>3. RunTable' BY <1>3, SetLogTyped DEF Save, IInv
  <2> QED BY <2>1, <2>2, <2>3, RunGoesOn DEF tableVars, OtherLocals
<1> QED BY <1>1, <1>2, <1>3, LinkHumanOK, SyncOK, WalkOK, Kinds DEF Carry

LEMMA FlushOK == ASSUME IInv, NEW r \in Runs, Flush(r) PROVE IInv'
<1>1. Tables' BY DEF Flush, tableVars, boundVars, IInv, Tables
<1>2. RunTable' BY SetLogTyped DEF Flush, IInv
<1> QED BY <1>1, <1>2, NobodyMoves DEF Flush, tableVars

LEMMA UpdateTaskToolOK ==
  ASSUME IInv, NEW r \in Runs, NEW t \in Tasks, NEW s \in Status, UpdateTaskTool(r, t, s)
  PROVE  IInv'
<1>1. pc[r] = "run" /\ r \in Procs /\ SetStatus(t, s, FALSE) /\ KeepTask
      /\ UNCHANGED <<runVars, procVars, faults>> /\ Tables
  BY Kinds DEF UpdateTaskTool, At, IInv
<1>2. OnlyOf(r) /\ Proper(r)' /\ pc'[r] = pc[r] BY <1>1, Unmoved DEF runVars, procVars
<1>3. \A b : ~Ahead(r, b) BY <1>1, NotAhead DEF IInv, InWalk
<1>4. Tables'
  <2>1. status' \in [Tasks -> Status \cup {"absent", "gone"}] /\ quiet' \in [Tasks -> BOOLEAN]
    BY <1>1, SetStatusTyped
  <2>2. edits' \in 0..MaxEdits BY <1>1, EditTyped DEF UpdateTaskTool
  <2> QED BY <1>1, <2>1, <2>2 DEF KeepTask, Tables
<1>5. deps' = deps BY <1>1 DEF KeepTask
<1>6. BoardStep(r) BY <1>1, <1>3, <1>5, BoardSet
<1> QED BY <1>1, <1>2, <1>4, <1>5, <1>6, MoveOK DEF runVars, IInv, RunTable

LEMMA AskHumanOK == ASSUME IInv, NEW r \in Runs, NEW h \in Tasks, AskHuman(r, h) PROVE IInv'
<1>1. pc[r] = "run" /\ r \in Procs /\ r \notin Requests /\ SetStatus(h, "TODO", FALSE) /\ Proper(r)
      /\ assignee' = [assignee EXCEPT ![h] = "human"] /\ dep' = [dep EXCEPT ![r] = h]
      /\ Goto(r, "link")
      /\ UNCHANGED <<deleted, deps, coordinator, runVars, job, want, seen, left, new, faults>>
      /\ "TODO" \in Status /\ Tables
  BY Kinds DEF AskHuman, At, Status, IInv
<1>2. OnlyOf(r) /\ pc'[r] = "link"
  <2>1. "link" \in Places /\ "link" \in RunPC BY DEF Places, RunPC
  <2> QED BY <1>1, <2>1, GotoOnly DEF IInv
<1>3. dep'[r] = h BY <1>1 DEF IInv, Locals
<1>4. Proper(r)' BY <1>1, <1>2, <1>3 DEF Proper, InWalk, runVars
<1>5. \A b : ~Ahead(r, b) BY <1>1, NotAhead DEF InWalk
<1>6. Tables'
  <2>1. status' \in [Tasks -> Status \cup {"absent", "gone"}] /\ quiet' \in [Tasks -> BOOLEAN]
    BY <1>1, SetStatusTyped
  <2>2. edits' \in 0..MaxEdits BY <1>1, EditTyped DEF AskHuman
  <2> QED BY <1>1, <2>1, <2>2 DEF Tables, Assignee
<1>7. BoardStep(r) BY <1>1, <1>5, BoardSet
<1> QED BY <1>1, <1>2, <1>4, <1>6, <1>7, MoveOK DEF runVars, IInv, RunTable

(* The loop stops, by itself or by an exception. *)
LEMMA LoopEnds ==
  ASSUME IInv, NEW r \in Runs, ToolFails(r) \/ \E s \in {"DONE", "TODO"} : EndLoop(r, s)
  PROVE  IInv'
<1>1. CASE ToolFails(r)
  <2>1. pc[r] \in {"run", "link", "block"} /\ Goto(r, "save") /\ want' = [want EXCEPT ![r] = "TODO"]
        /\ dep' = [dep EXCEPT ![r] = Null]
        /\ UNCHANGED <<tableVars, runVars, job, seen, left, new, edits>>
    BY <1>1 DEF ToolFails
  <2>2. Tables' BY <1>1, <2>1, FaultTyped DEF ToolFails, tableVars, IInv, Tables
  <2>3. RunTable' /\ nRuns' = nRuns BY <2>1 DEF runVars, IInv, RunTable
  <2> QED BY <2>1, <2>2, <2>3, RunGoesOn DEF tableVars
<1>2. ASSUME NEW s \in {"DONE", "TODO"}, EndLoop(r, s) PROVE IInv'
  <2>1. pc[r] = "run" /\ Goto(r, "save") /\ want' = [want EXCEPT ![r] = s]
        /\ UNCHANGED <<tableVars, runVars, boundVars, OtherLocals>>
    BY <1>2 DEF EndLoop, At, RunVarsKept
  <2>2. Tables' BY <2>1 DEF tableVars, boundVars, IInv, Tables
  <2>3. RunTable' /\ nRuns' = nRuns BY <2>1 DEF runVars, IInv, RunTable
  <2> QED BY <2>1, <2>2, <2>3, RunGoesOn DEF tableVars, OtherLocals
<1> QED BY <1>1, <1>2

LEMMA ActOK == ASSUME IInv, NEW r \in Runs, Act(r) PROVE IInv'
<1>1. CASE CompleteTask(r)
  <2>1. "DONE" \in Status BY DEF Status
  <2>2. PICK l \in {"deps", "save"} : Goto(r, l) /\ (Exists(job[r]) => l = "deps")
    BY <1>1 DEF CompleteTask
  <2> QED BY <1>1, <2>1, <2>2, PutOK DEF CompleteTask, At, RunVarsKept
<1>2. CASE BlockTask(r)
  <2>1. "BLOCKED" \in Status BY DEF Status
  <2> QED BY <1>2, <2>1, PutOK DEF BlockTask, At, RunVarsKept
<1>3. ASSUME NEW t \in Tasks, NEW s \in Status \cap Writes, UpdateTaskTool(r, t, s) PROVE IInv'
  BY <1>3, UpdateTaskToolOK
<1> QED BY <1>1, <1>2, <1>3, FlushOK, LoopEnds, AskHumanOK DEF Act

-----------------------------------------------------------------------------
LEMMA InitOK == Init => IInv
<1> SUFFICES ASSUME Init PROVE IInv OBVIOUS
<1> USE DEF Init
<1>1. Tables
  <2>1. \A t \in InitTasks : PlannedStatus(t) \in Status BY DEF PlannedStatus, Status
  <2>2. status \in [Tasks -> Status \cup {"absent", "gone"}] BY <2>1
  <2>3. assignee \in [Tasks -> Assignee] BY BoardAssumption DEF BoardAssumption, Assignee
  <2>4. deps \subseteq Tasks \X Tasks BY BoardAssumption DEF BoardAssumption
  <2>5. deleted \in [Tasks -> BOOLEAN] /\ quiet \in [Tasks -> BOOLEAN] /\ coordinator \in BOOLEAN OBVIOUS
  <2>6. edits \in 0..MaxEdits /\ faults \in 0..MaxFaults BY Kinds
  <2> QED BY <2>2, <2>3, <2>4, <2>5, <2>6 DEF Tables
<1>2. RunTable BY Kinds DEF RunTable, Assignee
<1>3. Locals BY Kinds DEF Locals, Places, RequestPC, RunPC, Assignee
<1>4. \A p \in Procs : Proper(p)
  <2>1. \A p \in Procs : pc[p] \in {"idle", "none"} /\ left[p] = {} /\ (p \in Runs => pc[p] = "none")
    BY Kinds
  <2> QED BY <2>1 DEF Proper
<1>5. Creations BY DEF Creations, At
<1>6. ASSUME NEW b \in Tasks, status[b] = "BLOCKED" PROVE OpenBlockers(b) # {}
  <2>1. b \in InitTasks /\ PlannedStatus(b) = "BLOCKED" BY <1>6
  <2>2. PICK a \in InitTasks : <<a, b>> \in InitDeps BY <2>1 DEF PlannedStatus
  <2>3. a \in Tasks BY BoardAssumption DEF BoardAssumption
  <2>4. status[a] # "DONE" BY <2>3 DEF PlannedStatus
  <2> QED BY <2>2, <2>3, <2>4 DEF OpenBlockers, Blockers
<1> QED BY <1>1, <1>2, <1>3, <1>4, <1>5, <1>6 DEF IInv, Settled, Free

LEMMA StepOK == IInv /\ [Next]_vars => IInv'
<1> SUFFICES ASSUME IInv, [Next]_vars PROVE IInv' OBVIOUS
<1>1. ASSUME NEW q \in Requests, Ask(q) PROVE IInv'
  BY <1>1, UpdateOK, CreateTaskOK, TriggerRunOK DEF Ask
<1>2. ASSUME NEW q \in Requests, Answering(q) PROVE IInv'
  BY <1>2, WriteStatusOK, WriteAssigneeOK, WriteNothingOK, CoordinateOK, StopOK, RemoveOK, NextTaskOK,
     LookupOK, DispatchOK, WalkOK, Kinds DEF Answering
<1>3. ASSUME NEW r \in Runs, Carry(r) \/ Act(r) \/ ToolFails(r) PROVE IInv'
  BY <1>3, CarryOK, ActOK, LoopEnds
<1>4. ASSUME NEW p \in Procs, Fails(p) PROVE IInv' BY <1>4, FailsOK
<1>5. ASSUME NEW t \in Tasks, Restore(t) \/ Purge(t) PROVE IInv' BY <1>5, RestoreOK, PurgeOK
<1>6. CASE UNCHANGED vars
  <2>1. Tables' BY <1>6 DEF vars, tableVars, boundVars, IInv, Tables
  <2>2. RunTable' BY <1>6 DEF vars, runVars, IInv, RunTable
  <2> QED BY <1>6, <2>1, <2>2, NobodyMoves DEF vars, tableVars, runVars
<1> QED BY <1>1, <1>2, <1>3, <1>4, <1>5, <1>6, SetCoordinatorOK DEF Next

LEMMA Inductive == Spec => []IInv
BY InitOK, StepOK, PTL DEF Spec

(* Every variable of the board keeps its type: a status is never written from a request's
   assignee, a run never gets a place of a request. *)
THEOREM TypeCorrect == Spec => []TypeOK
BY Types, Inductive, PTL

(* Whoever finishes the last blocker of a task (update of TasksService, complete_task of a
   run) or another process is about to look at it, however many walks of requests and
   runs interleave, unless it was finished where the code does not look or a walk was
   cut short. *)
THEOREM NoReleaseIsLost == Spec => []ReleaseNotLost
<1>1. IInv => ReleaseNotLost BY DEF IInv, Settled, Free, ReleaseNotLost, Releasable
<1> QED BY <1>1, Inductive, PTL
=============================================================================
