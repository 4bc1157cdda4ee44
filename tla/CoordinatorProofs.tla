--------------------------- MODULE CoordinatorProofs ---------------------------
(***************************************************************************)
(* TypeOK, AckedWasDecided and FinishedIsConsidered are invariants of      *)
(* Coordinator, for any tasks, requests, runners and bounds.               *)
(*                                                                         *)
(* FinishedIsConsidered is about the latest event of a task, AckedWas-     *)
(* Decided about every acknowledged one.  Both need what the workers know  *)
(* of their event (WorkersOK): a worker that is about to acknowledge has   *)
(* decided, so the event it takes off the list is not one that waits.  And *)
(* an event that is published has its place in the stream (RoomOK), which  *)
(* its request has reserved when it began.  TypeOK needs the same of runs: *)
(* whoever is about to create one has kept a place for it (RunRoom).       *)
(*                                                                         *)
(* The stream of events implements JobQueue: every step that leaves the    *)
(* stream alone is one in which some workers lose what they hold, perhaps  *)
(* none (Stopping); Publish, Read, Claim, Finish and Ack are the others.   *)
(***************************************************************************)
EXTENDS Coordinator, FiniteSetTheorems, TLAPS

Places == RequestPC \cup WorkerPC
Early  == {"load", "log"}

Locals ==
    /\ pc \in [Procs -> Places]
    /\ task \in [Procs -> Tasks \cup {Null}]
    /\ want \in [Requests -> Status]
    /\ ev \in [Workers -> Nat]

Stream ==
    /\ nEvents \in Nat /\ cursor \in 0..nEvents
    /\ pel \subseteq 1..cursor
    /\ evTask \in [Events -> Tasks \cup {Null}]

(* A busy worker has an event that was delivered, one about to acknowledge has decided it. *)
WorkersOK ==
    \A w \in Workers :
        /\ ev[w] \in 0..cursor
        /\ pc[w] # "idle" => ev[w] # 0
        /\ pc[w] = "ack" => ev[w] \in decided

(* Requests that are going to publish, or may. *)
Promises == {q \in Requests : At(q, "notify") \/ (At(q, "write") /\ want[q] # "TODO")}
RoomOK == nEvents + Cardinality(Promises) <= MaxEvents

(* FinishedIsConsidered for one task. *)
Considered(t) ==
    \/ t \in missed
    \/ \E q \in Requests : At(q, "notify") /\ task[q] = t
    \/ \E e \in 1..nEvents : evTask[e] = t /\ Waiting(e)

IInv == Locals /\ Stream /\ WorkersOK /\ RoomOK /\ AckedWasDecided /\ FinishedIsConsidered

-----------------------------------------------------------------------------
(* Steps of the processes in a set; all others stay as they are.           *)

Only(S) ==
    /\ Locals'
    /\ \A p \in Procs \ S : pc'[p] = pc[p] /\ task'[p] = task[p]
    /\ \A q \in Requests \ S : want'[q] = want[q]
    /\ \A w \in Workers \ S : ev'[w] = ev[w]

LEMMA Kinds ==
  /\ Requests \subseteq Procs /\ Workers \subseteq Procs
  /\ Requests \cap Workers = {}
  /\ \A n \in Runners : WorkersOf(n) \subseteq Workers /\ <<n, "read">> \in Workers /\ <<n, "claim">> \in Workers
BY CoordinatorAssumption DEF CoordinatorAssumption, Procs, Workers, WorkersOf

LEMMA ParkOnly ==
  ASSUME Locals, NEW S, Park(S)
  PROVE  /\ Only(S)
         /\ \A p \in Procs \cap S : pc'[p] = "idle"
         /\ \A w \in Workers \cap S : ev'[w] = 0
<1>1. pc' \in [Procs -> Places] BY DEF Locals, Park, Places, RequestPC
<1>2. task' \in [Procs -> Tasks \cup {Null}] BY DEF Locals, Park
<1>3. want' \in [Requests -> Status] BY DEF Locals, Park, Status
<1>4. ev' \in [Workers -> Nat] BY DEF Locals, Park
<1>5. Locals' BY <1>1, <1>2, <1>3, <1>4 DEF Locals
<1>6. \A p \in Procs \ S : pc'[p] = pc[p] /\ task'[p] = task[p] BY DEF Park
<1>7. (\A q \in Requests \ S : want'[q] = want[q]) /\ \A w \in Workers \ S : ev'[w] = ev[w] BY DEF Park
<1>8. (\A p \in Procs \cap S : pc'[p] = "idle") /\ \A w \in Workers \cap S : ev'[w] = 0 BY DEF Park
<1> QED BY <1>5, <1>6, <1>7, <1>8 DEF Only

LEMMA GotoOnly ==
  ASSUME Locals, NEW p \in Procs, NEW l \in Places, Goto(p, l),
         \/ task' = task
         \/ \E t \in Tasks \cup {Null} : task' = [task EXCEPT ![p] = t],
         \/ want' = want
         \/ p \in Requests /\ \E s \in Status : want' = [want EXCEPT ![p] = s],
         \/ ev' = ev
         \/ p \in Workers /\ \E e \in Nat : ev' = [ev EXCEPT ![p] = e]
  PROVE  Only({p}) /\ pc'[p] = l
<1>1. pc' \in [Procs -> Places] /\ pc'[p] = l BY DEF Locals, Goto
<1>2. task' \in [Procs -> Tasks \cup {Null}] BY DEF Locals
<1>3. want' \in [Requests -> Status] BY DEF Locals
<1>4. ev' \in [Workers -> Nat] BY DEF Locals
<1>5. Locals' BY <1>1, <1>2, <1>3, <1>4 DEF Locals
<1>6. \A r \in Procs \ {p} : pc'[r] = pc[r] /\ task'[r] = task[r] BY DEF Locals, Goto
<1>7. \A q \in Requests \ {p} : want'[q] = want[q] BY DEF Locals
<1>8. \A w \in Workers \ {p} : ev'[w] = ev[w] BY DEF Locals
<1> QED BY <1>1, <1>5, <1>6, <1>7, <1>8 DEF Only

-----------------------------------------------------------------------------
(* The room of the stream                                                  *)

LEMMA FewPromises == IsFiniteSet(Promises) /\ Cardinality(Promises) \in Nat
BY RequestsAssumption, FS_Subset, FS_CardinalityType DEF RequestsAssumption, Promises

LEMMA FewerPromises ==
  ASSUME RoomOK, nEvents \in Nat, nEvents' = nEvents, Promises' \subseteq Promises
  PROVE  RoomOK'
<1>1. Cardinality(Promises') <= Cardinality(Promises) /\ Cardinality(Promises') \in Nat
  BY FewPromises, FS_Subset, FS_CardinalityType
<1> QED BY <1>1, FewPromises, CoordinatorAssumption DEF RoomOK, CoordinatorAssumption

LEMMA OnePromise ==
  ASSUME nEvents \in Nat, nEvents' = nEvents, RoomForEvent, NEW q, Promises' \subseteq Promises \cup {q}
  PROVE  RoomOK'
<1> DEFINE T == {r \in Requests : pc[r] \in {"write", "notify"}}
<1>1. IsFiniteSet(T) /\ Cardinality(T) \in Nat
  BY RequestsAssumption, FS_Subset, FS_CardinalityType DEF RequestsAssumption
<1>2. Promises \subseteq T BY DEF Promises, At
<1>3. Cardinality(Promises) <= Cardinality(T) BY <1>1, <1>2, FS_Subset
<1>4. IsFiniteSet(Promises \cup {q}) /\ Cardinality(Promises \cup {q}) \in Nat
      /\ Cardinality(Promises \cup {q}) <= Cardinality(Promises) + 1
  BY FewPromises, FS_AddElement, FS_CardinalityType
<1>5. Cardinality(Promises') <= Cardinality(Promises \cup {q}) /\ Cardinality(Promises') \in Nat
  BY <1>4, FS_Subset, FS_CardinalityType
<1>6. nEvents + Cardinality(T) < MaxEvents BY DEF RoomForEvent
<1> QED BY <1>1, <1>3, <1>4, <1>5, <1>6, FewPromises, CoordinatorAssumption DEF RoomOK, CoordinatorAssumption

(* Who publishes keeps its promise: there is room, and there is as much afterwards. *)
LEMMA KeptPromise ==
  ASSUME RoomOK, nEvents \in Nat, nEvents' = nEvents + 1, NEW q \in Promises, Promises' \subseteq Promises \ {q}
  PROVE  RoomOK' /\ nEvents + 1 <= MaxEvents
<1>1. IsFiniteSet(Promises \ {q}) /\ Cardinality(Promises \ {q}) = Cardinality(Promises) - 1
  BY FewPromises, FS_RemoveElement
<1>2. Cardinality(Promises') <= Cardinality(Promises \ {q}) /\ Cardinality(Promises') \in Nat
  BY <1>1, FS_Subset, FS_CardinalityType
<1> QED BY <1>1, <1>2, FewPromises, CoordinatorAssumption DEF RoomOK, CoordinatorAssumption

-----------------------------------------------------------------------------
(* Steps of workers: no event is added or acknowledged, no request moves.  *)

LEMMA WorkersMove ==
  ASSUME IInv, NEW S \in SUBSET Workers, Only(S),
         UNCHANGED <<nEvents, evTask, cursor, pel, missed>>,
         decided \subseteq decided', unseen' \subseteq unseen,
         \A w \in S : /\ ev'[w] \in 0..cursor
                      /\ pc'[w] # "idle" => ev'[w] # 0
                      /\ pc'[w] = "ack" => ev'[w] \in decided',
         \A w \in S : \/ pc'[w] \in Early
                      \/ ev'[w] = 0
                      \/ ev'[w] = ev[w] /\ (pc[w] \in Early => evTask[ev[w]] \notin unseen')
  PROVE  IInv'
<1>1. Locals' BY DEF Only
<1>2. Stream' BY DEF IInv, Stream
<1>3. WorkersOK'
  <2> SUFFICES ASSUME NEW w \in Workers
               PROVE  ev'[w] \in 0..cursor /\ (pc'[w] # "idle" => ev'[w] # 0)
                      /\ (pc'[w] = "ack" => ev'[w] \in decided')
    BY DEF WorkersOK
  <2>1. CASE w \in S BY <2>1
  <2>2. CASE w \notin S
    <3>1. pc'[w] = pc[w] /\ ev'[w] = ev[w] BY <2>2, Kinds DEF Only
    <3> QED BY <3>1 DEF IInv, WorkersOK
  <2> QED BY <2>1, <2>2
<1>4. \A q \in Requests : pc'[q] = pc[q] /\ task'[q] = task[q] /\ want'[q] = want[q]
  BY Kinds DEF Only
<1>5. RoomOK'
  <2>1. Promises' \subseteq Promises BY <1>4 DEF Promises, At
  <2> QED BY <2>1, FewerPromises DEF IInv, Stream
<1>6. AckedWasDecided' BY DEF IInv, AckedWasDecided, Acked
<1>7. FinishedIsConsidered'
  <2> SUFFICES ASSUME NEW t \in unseen' PROVE Considered(t)'
    BY DEF FinishedIsConsidered, Considered
  <2>1. Considered(t) BY DEF IInv, FinishedIsConsidered, Considered
  <2>2. CASE t \in missed BY <2>2 DEF Considered
  <2>3. ASSUME NEW q \in Requests, At(q, "notify"), task[q] = t PROVE Considered(t)'
    BY <2>3, <1>4 DEF Considered, At
  <2>4. ASSUME NEW e \in 1..nEvents, evTask[e] = t, Waiting(e) PROVE Considered(t)'
    <3>1. ASSUME NEW w \in Workers, ev'[w] = e PROVE pc'[w] \in Early
      <4>1. CASE w \in S
        <5>1. e # 0 BY DEF IInv, Stream
        <5>2. ev[w] = e => pc[w] \in Early BY <2>4 DEF Waiting, Early
        <5> QED BY <4>1, <5>1, <5>2, <3>1, <2>4
      <4>2. CASE w \notin S
        <5>1. pc'[w] = pc[w] /\ ev'[w] = ev[w] BY <4>2, Kinds DEF Only
        <5> QED BY <5>1, <3>1, <2>4 DEF Waiting, Early
      <4> QED BY <4>1, <4>2
    <3>2. Waiting(e)' BY <3>1, <2>4 DEF Waiting, Early, Acked
    <3> QED BY <3>2, <2>4 DEF Considered
  <2> QED BY <2>1, <2>2, <2>3, <2>4 DEF Considered
<1> QED BY <1>1, <1>2, <1>3, <1>5, <1>6, <1>7 DEF IInv

(* A worker that goes on with its event. *)
LEMMA WorkerGoesOn ==
  ASSUME IInv, NEW w \in Workers, pc[w] # "idle", Only({w}), ev'[w] = ev[w],
         UNCHANGED <<nEvents, evTask, cursor, pel, missed>>,
         decided \subseteq decided', unseen' \subseteq unseen,
         pc'[w] = "ack" => ev[w] \in decided',
         \/ pc'[w] \in Early
         \/ pc[w] \in Early => evTask[ev[w]] \notin unseen'
  PROVE  IInv'
<1>1. ev[w] \in 0..cursor /\ ev[w] # 0 BY DEF IInv, WorkersOK
<1> QED BY <1>1, WorkersMove

(* Workers that stop: their events wait, or are acknowledged already. *)
LEMMA WorkersStop ==
  ASSUME IInv, NEW S \in SUBSET Workers, Park(S),
         UNCHANGED <<nEvents, evTask, cursor, pel, missed, decided, unseen>>
  PROVE  IInv'
<1>1. Only(S) /\ (\A w \in S : pc'[w] = "idle" /\ ev'[w] = 0) BY ParkOnly, Kinds DEF IInv
<1>2. cursor \in Nat BY DEF IInv, Stream
<1> QED BY <1>1, <1>2, WorkersMove

(* Steps of agents and of the clean-up touch neither events nor who handles them. *)
LEMMA NobodyMoves ==
  ASSUME IInv, UNCHANGED <<unseen, missed, streamVars, procVars>>
  PROVE  IInv'
<1>1. Only({}) BY DEF IInv, Locals, Only, procVars, localVars, workVars
<1> QED BY <1>1, WorkersMove DEF streamVars

-----------------------------------------------------------------------------
(* Steps of requests: the workers and their events stay.                   *)

LEMMA RequestMoves ==
  ASSUME IInv, NEW q \in Requests, Only({q}), RoomOK', UNCHANGED streamVars,
         \A t \in unseen' :
            \/ t \in missed'
            \/ pc'[q] = "notify" /\ task'[q] = t
            \/ t \in unseen /\ (t \in missed => t \in missed') /\ (pc[q] = "notify" => task[q] # t)
  PROVE  IInv'
<1> USE DEF streamVars
<1>1. Locals' BY DEF Only
<1>2. Stream' BY DEF IInv, Stream
<1>3. \A w \in Workers : pc'[w] = pc[w] /\ ev'[w] = ev[w] BY Kinds DEF Only
<1>4. WorkersOK' BY <1>3 DEF IInv, WorkersOK
<1>5. AckedWasDecided' BY DEF IInv, AckedWasDecided, Acked
<1>6. \A e : Waiting(e) => Waiting(e)' BY <1>3 DEF Waiting, Acked
<1>7. FinishedIsConsidered'
  <2> SUFFICES ASSUME NEW t \in unseen' PROVE Considered(t)'
    BY DEF FinishedIsConsidered, Considered
  <2>1. CASE t \in missed' \/ (pc'[q] = "notify" /\ task'[q] = t)
    BY <2>1 DEF Considered, At
  <2>2. CASE t \in unseen /\ (t \in missed => t \in missed') /\ (pc[q] = "notify" => task[q] # t)
    <3>1. Considered(t) BY <2>2 DEF IInv, FinishedIsConsidered, Considered
    <3>2. ASSUME NEW r \in Requests, At(r, "notify"), task[r] = t PROVE Considered(t)'
      <4>1. r # q BY <3>2, <2>2 DEF At
      <4>2. pc'[r] = pc[r] /\ task'[r] = task[r] BY <4>1, Kinds DEF Only
      <4> QED BY <4>2, <3>2 DEF Considered, At
    <3>3. ASSUME NEW e \in 1..nEvents, evTask[e] = t, Waiting(e) PROVE Considered(t)'
      BY <3>3, <1>6 DEF Considered
    <3> QED BY <3>1, <3>2, <3>3, <2>2 DEF Considered
  <2> QED BY <2>1, <2>2
<1> QED BY <1>1, <1>2, <1>4, <1>5, <1>7 DEF IInv

(* A request that moves leaves the promises of the others alone. *)
LEMMA OthersPromise ==
  ASSUME NEW q \in Requests, Only({q})
  PROVE  /\ Promises' \subseteq Promises \cup {q}
         /\ (pc'[q] \notin {"write", "notify"}) => Promises' \subseteq Promises \ {q}
<1>1. \A r \in Requests \ {q} : pc'[r] = pc[r] /\ want'[r] = want[r] BY Kinds DEF Only
<1> QED BY <1>1 DEF Promises, At

(* A request that has nothing to publish goes on, or is answered. *)
LEMMA RequestGoesOn ==
  ASSUME IInv, NEW q \in Requests, Only({q}), pc[q] # "notify", pc'[q] \notin {"write", "notify"},
         UNCHANGED <<streamVars, missed, unseen>>
  PROVE  IInv'
<1>1. Promises' \subseteq Promises BY OthersPromise
<1>2. RoomOK' BY <1>1, FewerPromises DEF IInv, Stream, streamVars
<1> QED BY <1>2, RequestMoves

-----------------------------------------------------------------------------
(* The actions of requests                                                 *)

LEMMA UpdateOK ==
  ASSUME IInv, NEW q \in Requests, NEW t \in Tasks, NEW s \in Told \cup {"TODO"}, Update(q, t, s)
  PROVE  IInv'
<1>1. Only({q}) /\ pc'[q] = "write"
  <2>1. "write" \in Places /\ s \in Status /\ q \in Procs BY Kinds DEF Places, RequestPC, Told, Status
  <2>2. Goto(q, "write") /\ task' = [task EXCEPT ![q] = t] /\ want' = [want EXCEPT ![q] = s]
        /\ ev' = ev
    BY DEF Update, workVars
  <2> QED BY <2>1, <2>2, GotoOnly DEF IInv
<1>2. UNCHANGED <<streamVars, missed, unseen>> /\ pc[q] = "idle" BY DEF Update, At, taskVars
<1>3. RoomOK'
  <2>1. CASE s = "TODO"
    <3>1. want'[q] = "TODO" BY <2>1 DEF Update, IInv, Locals
    <3>2. q \notin Promises' BY <1>1, <3>1 DEF Promises, At
    <3>3. Promises' \subseteq Promises BY <1>1, <3>2, OthersPromise
    <3> QED BY <3>3, <1>2, FewerPromises DEF IInv, Stream, streamVars
  <2>2. CASE s # "TODO"
    <3>1. RoomForEvent BY <2>2 DEF Update
    <3>2. nEvents \in Nat /\ nEvents' = nEvents BY <1>2 DEF IInv, Stream, streamVars
    <3>3. Promises' \subseteq Promises \cup {q} BY <1>1, OthersPromise
    <3> QED BY <3>1, <3>2, <3>3, OnePromise
  <2> QED BY <2>1, <2>2
<1> QED BY <1>1, <1>2, <1>3, RequestMoves

LEMMA WriteOK == ASSUME IInv, NEW q \in Requests, Write(q) PROVE IInv'
<1> DEFINE news == want[q] \in Told /\ status[task[q]] # want[q]
<1>1. pc[q] = "write" /\ UNCHANGED streamVars /\ q \in Procs BY Kinds DEF Write, At
<1>2. unseen' \subseteq unseen \cup {task[q]} /\ (unseen' # unseen => news \/ Tells(q))
  BY DEF Write
<1>3. CASE Tells(q)
  <2>1. want[q] # "TODO" BY <1>3 DEF Tells, Told
  <2>2. Goto(q, "notify") /\ UNCHANGED localVars BY <1>3, <2>1 DEF Write
  <2>3. Only({q}) /\ pc'[q] = "notify"
    <3>1. "notify" \in Places BY DEF Places, RequestPC
    <3> QED BY <1>1, <2>2, <3>1, GotoOnly DEF IInv, localVars, workVars
  <2>4. Promises' \subseteq Promises
    <3>1. q \in Promises BY <1>1, <2>1 DEF Promises, At
    <3> QED BY <3>1, <2>3, OthersPromise
  <2>5. RoomOK' BY <2>4, <1>1, FewerPromises DEF IInv, Stream, streamVars
  <2>6. missed' = missed \ {task[q]} /\ task' = task BY <1>3, <2>2 DEF Write, localVars
  <2> QED BY <1>1, <1>2, <2>3, <2>5, <2>6, RequestMoves
<1>4. CASE ~Tells(q)
  <2>1. Only({q}) /\ pc'[q] \in {"check", "idle"}
    <3>1. CASE want[q] = "TODO"
      <4>1. Goto(q, "check") /\ UNCHANGED localVars BY <3>1 DEF Write
      <4>2. "check" \in Places BY DEF Places, RequestPC, Dispatch
      <4> QED BY <1>1, <4>1, <4>2, GotoOnly DEF IInv, localVars, workVars
    <3>2. CASE want[q] # "TODO"
      <4>1. Park({q}) BY <1>4, <3>2 DEF Write
      <4> QED BY <4>1, <1>1, ParkOnly DEF IInv
    <3> QED BY <3>1, <3>2
  <2>2. RoomOK'
    <3>1. Promises' \subseteq Promises BY <2>1, OthersPromise
    <3> QED BY <3>1, <1>1, FewerPromises DEF IInv, Stream, streamVars
  <2>3. missed \subseteq missed' /\ (news => task[q] \in missed') BY <1>4 DEF Write
  <2> QED BY <1>1, <1>2, <1>4, <2>1, <2>2, <2>3, RequestMoves
<1> QED BY <1>3, <1>4

LEMMA CommentOK == ASSUME IInv, NEW q \in Requests, NEW t \in Tasks, Comment(q, t) PROVE IInv'
<1>1. Only({q}) /\ pc'[q] = "notify"
  <2>1. "notify" \in Places /\ q \in Procs BY Kinds DEF Places, RequestPC
  <2>2. Goto(q, "notify") /\ task' = [task EXCEPT ![q] = t] /\ want' = want /\ ev' = ev
    BY DEF Comment, workVars
  <2> QED BY <2>1, <2>2, GotoOnly DEF IInv
<1>2. RoomOK'
  <2>1. nEvents \in Nat /\ nEvents' = nEvents /\ RoomForEvent
    BY DEF IInv, Stream, Comment, streamVars
  <2>2. Promises' \subseteq Promises \cup {q} BY <1>1, OthersPromise
  <2> QED BY <2>1, <2>2, OnePromise
<1>3. pc[q] = "idle" /\ task'[q] = t /\ UNCHANGED streamVars
  BY Kinds DEF Comment, At, IInv, Locals
<1>4. unseen' = unseen \cup {t} /\ missed' = missed \ {t} BY DEF Comment
<1> QED BY <1>1, <1>2, <1>3, <1>4, RequestMoves

LEMMA RequestFailsOK == ASSUME IInv, NEW q \in Requests, RequestFails(q) PROVE IInv'
<1>1. Only({q}) /\ pc'[q] = "idle" BY ParkOnly, Kinds DEF RequestFails, IInv
<1>2. UNCHANGED <<streamVars, unseen>> /\ missed \subseteq missed'
      /\ (pc[q] = "notify" => task[q] \in missed')
  BY DEF RequestFails, At
<1>3. RoomOK'
  <2>1. Promises' \subseteq Promises BY <1>1, OthersPromise
  <2> QED BY <2>1, <1>2, FewerPromises DEF IInv, Stream, streamVars
<1> QED BY <1>1, <1>2, <1>3, RequestMoves

(* The event that is published is the newest: no worker has it yet. *)
LEMMA PublishOK == ASSUME IInv, NEW q \in Requests, Publish(q) PROVE IInv'
<1>1. Only({q}) /\ pc'[q] = "idle" BY ParkOnly, Kinds DEF Publish, IInv
<1>2. UNCHANGED <<unseen, missed, cursor, pel, decided>> /\ pc[q] = "notify"
      /\ nEvents' = nEvents + 1 /\ evTask' = [evTask EXCEPT ![nEvents + 1] = task[q]]
  BY DEF Publish, At, taskVars
<1>3. nEvents \in Nat /\ cursor \in 0..nEvents /\ pel \subseteq 1..cursor
      /\ evTask \in [Events -> Tasks \cup {Null}]
  BY DEF IInv, Stream
<1>4. RoomOK' /\ nEvents + 1 <= MaxEvents
  <2>1. q \in Promises /\ Promises' \subseteq Promises \ {q}
    BY <1>1, <1>2, OthersPromise DEF Promises, At
  <2> QED BY <2>1, <1>2, <1>3, KeptPromise DEF IInv
<1>5. nEvents + 1 \in Events BY <1>3, <1>4, CoordinatorAssumption DEF Events, CoordinatorAssumption
<1>6. Stream'
  <2>1. nEvents' \in Nat /\ cursor' \in 0..nEvents' /\ pel' \subseteq 1..cursor' BY <1>2, <1>3
  <2>2. task[q] \in Tasks \cup {Null} BY Kinds DEF IInv, Locals
  <2>3. evTask' \in [Events -> Tasks \cup {Null}] BY <1>2, <1>3, <2>2
  <2> QED BY <2>1, <2>3 DEF Stream
<1>7. \A w \in Workers : pc'[w] = pc[w] /\ ev'[w] = ev[w] BY <1>1, Kinds DEF Only
<1>8. WorkersOK' BY <1>2, <1>7 DEF IInv, WorkersOK
<1>9. AckedWasDecided' BY <1>2 DEF IInv, AckedWasDecided, Acked
<1>10. \A e : Waiting(e) => Waiting(e)' BY <1>2, <1>7 DEF Waiting, Acked
<1>11. FinishedIsConsidered'
  <2> SUFFICES ASSUME NEW t \in unseen' PROVE Considered(t)'
    BY DEF FinishedIsConsidered, Considered
  <2>1. Considered(t) BY <1>2 DEF IInv, FinishedIsConsidered, Considered
  <2>2. CASE t \in missed BY <2>2, <1>2 DEF Considered
  <2>3. CASE task[q] = t
    <3>1. PICK e \in Nat : e = nEvents + 1 BY <1>3
    <3>2. evTask'[e] = t /\ e \in 1..nEvents' BY <3>1, <2>3, <1>2, <1>3, <1>5
    <3>3. e \notin Acked' BY <3>1, <1>2, <1>3 DEF Acked
    <3>4. \A w \in Workers : ev'[w] # e BY <3>1, <1>7, <1>3 DEF IInv, WorkersOK
    <3>5. Waiting(e)' BY <3>3, <3>4 DEF Waiting
    <3> QED BY <3>2, <3>5 DEF Considered
  <2>4. ASSUME NEW r \in Requests, At(r, "notify"), task[r] = t, task[q] # t PROVE Considered(t)'
    <3>1. pc'[r] = pc[r] /\ task'[r] = task[r] BY <1>1, <2>4, Kinds DEF Only
    <3> QED BY <3>1, <2>4 DEF Considered, At
  <2>5. ASSUME NEW e \in 1..nEvents, evTask[e] = t, Waiting(e) PROVE Considered(t)'
    <3>1. e \in 1..nEvents' /\ evTask'[e] = t
      <4>1. e \in Events /\ e # nEvents + 1
        BY <1>3, <1>4, CoordinatorAssumption DEF Events, CoordinatorAssumption
      <4> QED BY <4>1, <1>2, <1>3, <2>5
    <3> QED BY <3>1, <2>5, <1>10 DEF Considered
  <2> QED BY <2>1, <2>2, <2>3, <2>4, <2>5 DEF Considered
<1> QED BY <1>1, <1>4, <1>6, <1>8, <1>9, <1>11 DEF IInv, Only

-----------------------------------------------------------------------------
(* The actions both have: a request that dispatches, a worker that proceeds. *)

LEMMA ReturnOnly ==
  ASSUME Locals, NEW p \in Procs, Return(p)
  PROVE  Only({p}) /\ (p \in Workers => pc'[p] = "decide" /\ ev'[p] = ev[p])
                   /\ (p \in Requests => pc'[p] = "idle")
<1>1. CASE p \in Requests
  <2>1. Park({p}) /\ p \notin Workers BY <1>1, Kinds DEF Return
  <2> QED BY <1>1, <2>1, ParkOnly
<1>2. CASE p \notin Requests
  <2>1. Goto(p, "decide") /\ task' = [task EXCEPT ![p] = Null] /\ want' = want /\ ev' = ev
    BY <1>2 DEF Return, workVars
  <2>2. "decide" \in Places BY DEF Places, WorkerPC, InTry
  <2> QED BY <1>2, <2>1, <2>2, GotoOnly
<1> QED BY <1>1, <1>2

LEMMA DispatchOK == ASSUME IInv, NEW p \in Procs, DispatchStep(p) PROVE IInv'
<1>1. /\ pc[p] \in Dispatch /\ UNCHANGED <<streamVars, missed, unseen>>
      /\ Only({p}) /\ pc'[p] \in Dispatch \cup {"idle", "decide"}
      /\ p \in Workers => pc'[p] # "idle" /\ ev'[p] = ev[p]
      /\ p \in Requests => pc'[p] # "decide"
  <2> USE DEF Dispatch, taskVars
  <2>1. {"create", "xadd"} \subseteq Places BY DEF Places, RequestPC
  <2>2. CASE Check(p)
    <3>1. CASE RunningOf(task[p]) # {}
      <4>1. Return(p) BY <2>2, <3>1 DEF Check
      <4> QED BY <2>2, <4>1, ReturnOnly, Kinds DEF Check, At, IInv, Procs
    <3>2. CASE RunningOf(task[p]) = {}
      <4>1. Goto(p, "create") /\ UNCHANGED localVars BY <2>2, <3>2 DEF Check
      <4>2. Only({p}) /\ pc'[p] = "create" /\ ev' = ev
        BY <4>1, <2>1, GotoOnly DEF IInv, localVars, workVars
      <4> QED BY <2>2, <4>2 DEF Check, At
    <3> QED BY <3>1, <3>2
  <2>3. CASE CreateLog(p)
    <3>1. Goto(p, "xadd") /\ UNCHANGED <<task, want, ev>> BY <2>3 DEF CreateLog, workVars
    <3>2. Only({p}) /\ pc'[p] = "xadd" BY <3>1, <2>1, GotoOnly DEF IInv
    <3> QED BY <2>3, <3>1, <3>2 DEF CreateLog, At
  <2>4. CASE Xadd(p)
    <3>1. Return(p) BY <2>4 DEF Xadd
    <3> QED BY <2>4, <3>1, ReturnOnly, Kinds DEF Xadd, At, IInv, Procs
  <2> QED BY <2>2, <2>3, <2>4 DEF DispatchStep
<1>2. CASE p \in Requests
  <2>1. pc[p] # "notify" /\ pc'[p] \notin {"write", "notify"} BY <1>1, <1>2 DEF Dispatch
  <2> QED BY <1>1, <1>2, <2>1, RequestGoesOn
<1>3. CASE p \in Workers
  <2>1. pc[p] # "idle" /\ pc[p] \notin Early /\ pc'[p] # "ack" BY <1>1 DEF Dispatch, Early
  <2> QED BY <1>1, <1>3, <2>1, WorkerGoesOn DEF streamVars
<1> QED BY <1>2, <1>3 DEF Procs

-----------------------------------------------------------------------------
(* The actions of workers                                                  *)

(* All that only moves on from one place to the next. *)
LEMMA MovesOn ==
  ASSUME IInv, NEW w \in Workers, NEW l \in Places, Goto(w, l),
         \/ task' = task
         \/ \E t \in Tasks \cup {Null} : task' = [task EXCEPT ![w] = t],
         UNCHANGED <<want, ev, nEvents, evTask, cursor, pel, missed>>,
         decided \subseteq decided', unseen' \subseteq unseen,
         pc[w] # "idle",
         l = "ack" => ev[w] \in decided',
         l \in Early \/ pc[w] \notin Early \/ evTask[ev[w]] \notin unseen'
  PROVE  IInv'
<1>1. Only({w}) /\ pc'[w] = l BY GotoOnly, Kinds DEF IInv
<1> QED BY <1>1, WorkerGoesOn

LEMMA WorkerOK == ASSUME IInv, NEW w \in Workers, WorkerStep(w) PROVE IInv'
<1> USE DEF taskVars, streamVars, localVars, workVars
<1>1. {"log", "decide", "check", "release", "finish", "ack"} \subseteq Places
  BY DEF Places, WorkerPC, InTry, Dispatch
<1>2. CASE CannotLoad(w) BY <1>2, WorkersStop DEF CannotLoad
<1>3. CASE Load(w)
  BY <1>3, <1>1, MovesOn DEF Load, At, Early
<1>4. CASE LogRun(w)
  BY <1>4, <1>1, MovesOn DEF LogRun, At
<1>5. CASE LogFails(w)
  BY <1>5, <1>1, MovesOn DEF LogFails, At
<1>6. ASSUME NEW t \in Tasks, Proceed(w, t) PROVE IInv'
  BY <1>6, <1>1, MovesOn DEF Proceed, At, Early
<1>7. CASE Release(w)
  BY <1>7, <1>1, MovesOn DEF Release, At, Early
<1>8. CASE DispatchStep(w) BY <1>8, DispatchOK, Kinds
<1>9. CASE Abort(w)
  <2>1. Goto(w, "decide") BY <1>9 DEF Abort, At, Goto, IInv, Locals
  <2> QED BY <2>1, <1>9, <1>1, MovesOn DEF Abort, At, Early
<1>10. CASE Conclude(w)
  BY <1>10, <1>1, MovesOn DEF Conclude, At, Early
<1>11. CASE Finish(w)
  BY <1>11, <1>1, MovesOn DEF Finish, At, Early
<1>12. CASE Fail(w) BY <1>12, WorkersStop DEF Fail
<1>13. CASE Ack(w)
  <2>1. pc[w] = "ack" /\ Park({w}) /\ pel' = pel \ {ev[w]}
        /\ UNCHANGED <<unseen, missed, nEvents, evTask, cursor, decided>>
    BY <1>13 DEF Ack, At
  <2>2. Only({w}) /\ pc'[w] = "idle" /\ ev'[w] = 0 BY <2>1, ParkOnly, Kinds DEF IInv
  <2>3. Locals' BY <2>2 DEF Only
  <2>4. Stream' BY <2>1 DEF IInv, Stream
  <2>5. \A v \in Workers \ {w} : pc'[v] = pc[v] /\ ev'[v] = ev[v] BY <2>2, Kinds DEF Only
  <2>6. WorkersOK' BY <2>1, <2>2, <2>5 DEF IInv, WorkersOK, Stream
  <2>7. \A q \in Requests : pc'[q] = pc[q] /\ task'[q] = task[q] /\ want'[q] = want[q]
    BY <2>2, Kinds DEF Only
  <2>8. RoomOK'
    <3>1. Promises' \subseteq Promises BY <2>7 DEF Promises, At
    <3> QED BY <3>1, <2>1, FewerPromises DEF IInv, Stream
  <2>9. ev[w] \in decided BY <2>1 DEF IInv, WorkersOK
  <2>10. AckedWasDecided' BY <2>1, <2>9 DEF IInv, AckedWasDecided, Acked
  <2>11. \A e \in 1..nEvents : Waiting(e) => Waiting(e)'
    <3> SUFFICES ASSUME NEW e \in 1..nEvents, Waiting(e) PROVE Waiting(e)' OBVIOUS
    <3>1. e # ev[w] BY <2>1 DEF Waiting
    <3>2. e \notin Acked' BY <3>1, <2>1 DEF Waiting, Acked
    <3>3. \A v \in Workers : ev'[v] = e => pc'[v] \in {"load", "log"}
      <4>1. e # 0 BY DEF IInv, Stream
      <4> QED BY <4>1, <2>2, <2>5 DEF Waiting
    <3> QED BY <3>2, <3>3 DEF Waiting
  <2>12. FinishedIsConsidered'
    BY <2>1, <2>7, <2>11 DEF IInv, FinishedIsConsidered, At
  <2> QED BY <2>3, <2>4, <2>6, <2>8, <2>10, <2>12 DEF IInv
<1> QED BY <1>2, <1>3, <1>4, <1>5, <1>6, <1>7, <1>8, <1>9, <1>10, <1>11, <1>12, <1>13 DEF WorkerStep

LEMMA RaiseOK == ASSUME IInv, NEW w \in Workers, Raise(w) PROVE IInv'
<1>1. "fail" \in Places /\ pc[w] \notin Early /\ pc[w] # "idle"
  BY DEF Raise, InTry, Dispatch, Early, Places, WorkerPC
<1>2. Goto(w, "fail") /\ UNCHANGED <<taskVars, streamVars, localVars>> BY DEF Raise
<1> QED BY <1>1, <1>2, MovesOn DEF taskVars, streamVars, localVars, workVars

LEMMA GiveUpOK == ASSUME IInv, NEW w \in Workers, GiveUp(w) PROVE IInv'
BY WorkersStop DEF GiveUp, taskVars, streamVars

(* Whoever begins with an event is about to look at the board. *)
LEMMA BeginOK ==
  ASSUME IInv, NEW w \in Workers, NEW e \in Nat, Begin(w, e)
  PROVE  Only({w}) /\ pc'[w] = "load" /\ ev'[w] = e
<1>1. "load" \in Places BY DEF Places, WorkerPC
<1>2. Only({w}) /\ pc'[w] = "load" BY <1>1, GotoOnly, Kinds DEF Begin, IInv
<1> QED BY <1>2 DEF Begin, IInv, Locals

LEMMA ClaimOK ==
  ASSUME IInv, NEW n \in Runners, NEW e \in Events, Claim(n, e)
  PROVE  IInv'
<1>1. <<n, "claim">> \in Workers BY Kinds
<1>2. PICK w \in Workers : w = <<n, "claim">> BY <1>1
<1>3. Begin(w, e) /\ e \in pel /\ UNCHANGED <<taskVars, streamVars>> BY <1>2 DEF Claim
<1>4. e \in 1..cursor /\ cursor \in Nat BY <1>3 DEF IInv, Stream
<1>5. Only({w}) /\ pc'[w] = "load" /\ ev'[w] = e BY <1>3, <1>4, BeginOK
<1>6. \A v \in {w} : /\ ev'[v] \in 0..cursor
                     /\ pc'[v] # "idle" => ev'[v] # 0
                     /\ pc'[v] = "ack" => ev'[v] \in decided'
  BY <1>4, <1>5
<1>7. \A v \in {w} : pc'[v] \in Early BY <1>5 DEF Early
<1> QED BY <1>3, <1>5, <1>6, <1>7, WorkersMove DEF taskVars, streamVars

(* The event that is read was on no list yet and is on it now. *)
LEMMA ReadOK == ASSUME IInv, NEW n \in Runners, Read(n) PROVE IInv'
<1>1. <<n, "read">> \in Workers BY Kinds
<1>2. PICK w \in Workers : w = <<n, "read">> BY <1>1
<1>3. Begin(w, cursor + 1) /\ cursor < nEvents /\ cursor' = cursor + 1
      /\ pel' = pel \cup {cursor + 1} /\ UNCHANGED <<taskVars, nEvents, evTask, decided>>
  BY <1>2 DEF Read
<1>4. nEvents \in Nat /\ cursor \in 0..nEvents /\ pel \subseteq 1..cursor
  BY DEF IInv, Stream
<1>5. Only({w}) /\ pc'[w] = "load" /\ ev'[w] = cursor + 1
  <2>1. cursor + 1 \in Nat BY <1>4
  <2> QED BY <2>1, <1>3, BeginOK
<1>6. Locals' BY <1>5 DEF Only
<1>7. Stream'
  <2>1. cursor' \in 0..nEvents' /\ pel' \subseteq 1..cursor' BY <1>3, <1>4
  <2> QED BY <2>1, <1>3 DEF IInv, Stream
<1>8. \A v \in Workers \ {w} : pc'[v] = pc[v] /\ ev'[v] = ev[v] BY <1>5, Kinds DEF Only
<1>9. WorkersOK'
  <2> SUFFICES ASSUME NEW v \in Workers
               PROVE  ev'[v] \in 0..cursor' /\ (pc'[v] # "idle" => ev'[v] # 0)
                      /\ (pc'[v] = "ack" => ev'[v] \in decided')
    BY DEF WorkersOK
  <2>1. CASE v = w BY <2>1, <1>3, <1>4, <1>5
  <2>2. CASE v # w BY <2>2, <1>3, <1>4, <1>8 DEF IInv, WorkersOK
  <2> QED BY <2>1, <2>2
<1>10. \A q \in Requests : pc'[q] = pc[q] /\ task'[q] = task[q] /\ want'[q] = want[q]
  BY <1>5, Kinds DEF Only
<1>11. RoomOK'
  <2>1. Promises' \subseteq Promises BY <1>10 DEF Promises, At
  <2> QED BY <2>1, <1>3, FewerPromises DEF IInv, Stream
<1>12. Acked' = Acked BY <1>3, <1>4 DEF Acked
<1>13. AckedWasDecided' BY <1>3, <1>12 DEF IInv, AckedWasDecided
<1>14. \A e : Waiting(e) => Waiting(e)' BY <1>5, <1>8, <1>12 DEF Waiting
<1>15. FinishedIsConsidered'
  BY <1>3, <1>10, <1>14 DEF IInv, FinishedIsConsidered, At, taskVars
<1> QED BY <1>6, <1>7, <1>9, <1>11, <1>13, <1>15 DEF IInv

(* A runner goes down, or loses its loop. *)
LEMMA DownOK == ASSUME IInv, NEW n \in Runners, Down(n) \/ ReadLoopDies(n) PROVE IInv'
<1> USE DEF taskVars, streamVars
<1>1. CASE Down(n) BY <1>1, WorkersStop, Kinds DEF Down
<1>2. CASE ReadLoopDies(n)
  <2>1. {<<n, "claim">>} \subseteq Workers BY Kinds
  <2> QED BY <1>2, <2>1, WorkersStop DEF ReadLoopDies
<1> QED BY <1>1, <1>2

-----------------------------------------------------------------------------
LEMMA InitOK == Init => IInv
<1> SUFFICES ASSUME Init PROVE IInv OBVIOUS
<1> USE DEF Init
<1>1. Locals BY DEF Locals, Places, RequestPC, Status
<1>2. Stream BY DEF Stream
<1>3. WorkersOK BY Kinds DEF WorkersOK
<1>4. RoomOK
  <2>1. Promises = {} BY Kinds DEF Promises, At
  <2> QED BY <2>1, FS_EmptySet, CoordinatorAssumption DEF RoomOK, CoordinatorAssumption
<1>5. AckedWasDecided BY DEF AckedWasDecided, Acked
<1>6. FinishedIsConsidered BY DEF FinishedIsConsidered
<1> QED BY <1>1, <1>2, <1>3, <1>4, <1>5, <1>6 DEF IInv

LEMMA StepOK == IInv /\ [Next]_vars => IInv'
<1> SUFFICES ASSUME IInv, [Next]_vars PROVE IInv' OBVIOUS
<1>1. ASSUME NEW q \in Requests,
             \/ \E t \in Tasks : Comment(q, t) \/ \E s \in Told \cup {"TODO"} : Update(q, t, s)
             \/ RequestStep(q) \/ RequestFails(q)
      PROVE  IInv'
  BY <1>1, CommentOK, UpdateOK, WriteOK, PublishOK, DispatchOK, RequestFailsOK, Kinds DEF RequestStep
<1>2. ASSUME NEW w \in Workers, WorkerStep(w) \/ Raise(w) \/ GiveUp(w) PROVE IInv'
  BY <1>2, WorkerOK, RaiseOK, GiveUpOK
<1>3. ASSUME NEW n \in Runners,
             \/ Read(n) \/ \E e \in Events : Claim(n, e)
             \/ Down(n) \/ ReadLoopDies(n)
      PROVE  IInv'
  BY <1>3, ReadOK, ClaimOK, DownOK
<1>4. ASSUME NEW n \in Runners, Start(n) \/ Revert(n) PROVE IInv'
  BY <1>4, NobodyMoves DEF Start, Revert, taskVars
<1>5. ASSUME NEW r \in Runs, AgentStart(r) \/ \E s \in {"DONE", "BLOCKED", "TODO"} : AgentEnd(r, s)
      PROVE  IInv'
  BY <1>5, NobodyMoves DEF AgentStart, AgentEnd
<1>6. CASE UNCHANGED vars BY <1>6, NobodyMoves DEF vars, taskVars
<1> QED BY <1>1, <1>2, <1>3, <1>4, <1>5, <1>6 DEF Next

LEMMA Inductive == Spec => []IInv
BY InitOK, StepOK, PTL DEF Spec

(* An event leaves the pending list of coordinator-events only after a run about it came
   to its end (_process_coordinator_event returned), whatever crashes, raises or is
   claimed by another worker meanwhile. *)
THEOREM NoEventLost == Spec => []AckedWasDecided
<1>1. IInv => AckedWasDecided BY DEF IInv
<1> QED BY <1>1, Inductive, PTL

(* What a person finishes, blocks or answers is on its way to the coordinator or waits
   for a run that has yet to look at the board, unless the request died before it told:
   also when an earlier event of the task is being decided, cut short or retried. *)
THEOREM NewsIsConsidered == Spec => []FinishedIsConsidered
<1>1. IInv => FinishedIsConsidered BY DEF IInv
<1> QED BY <1>1, Inductive, PTL

-----------------------------------------------------------------------------
(* Types.  Whoever may create a run has room for it (RunRoom), reserved    *)
(* when its request or its decision began, as a request has for its event; *)
(* so that no row is created and no event added beyond the bounds, and the *)
(* bounds only keep people and decisions from beginning.                   *)

Table ==
    /\ status \in [Tasks -> Status]
    /\ unseen \subseteq Tasks /\ missed \subseteq Tasks /\ halted \subseteq Tasks

Logs ==
    /\ runTask \in [Runs -> Tasks \cup {Null}]
    /\ runLog \in [Runs -> {"none", "RUNNING", "over"}]
    /\ runBy \in [Runs -> {"agent", "coordinator"}]
    /\ stage \in [Runs -> {"none", "logged", "queued", "run", "over"}]
    /\ logLost \subseteq Runs

RunRoom == nRuns \in Nat /\ IsFiniteSet(Creating) /\ nRuns + Cardinality(Creating) <= MaxRuns

(* Where requests and workers are, and what they hold there. *)
Placed ==
    /\ \A q \in Requests : pc[q] \in RequestPC /\ (pc[q] \in {"write", "notify"} => task[q] \in Tasks)
    /\ \A w \in Workers : pc[w] \in WorkerPC /\ (pc[w] = "idle" => ev[w] = 0)

Held ==
    /\ seen \in [Requests -> Status]
    /\ new \in [Procs -> 0..nRuns]
    /\ log \in [Workers -> 0..nRuns]
    /\ turns \in [Workers -> 0..MaxTurns]

Others ==
    /\ runner \in [Runners -> {"down", "reverting", "up", "deaf"}]
    /\ stale \in [Runners -> SUBSET Tasks]
    /\ decided \subseteq 1..cursor
    /\ faults \in 0..MaxFaults /\ edits \in 0..MaxEdits

TInv == Table /\ Logs /\ RunRoom /\ Placed /\ Held /\ Others

(* The room for runs                                                       *)

LEMMA Counts ==
  ASSUME RunRoom
  PROVE  /\ Cardinality(Creating) \in Nat
         /\ RoomForRun => nRuns + Cardinality(Creating) < MaxRuns
         /\ nRuns + Cardinality(Creating) <= MaxRuns /\ MaxRuns \in Nat
BY FS_CardinalityType, CoordinatorAssumption DEF RunRoom, RoomForRun, CoordinatorAssumption

LEMMA RoomKept ==
  ASSUME RunRoom, UNCHANGED nRuns, Creating' \subseteq Creating
  PROVE  RunRoom'
<1>1. IsFiniteSet(Creating') /\ Cardinality(Creating') <= Cardinality(Creating) /\ Cardinality(Creating') \in Nat
  BY FS_Subset, FS_CardinalityType DEF RunRoom
<1>2. PICK n \in Nat, m \in Nat : n = Cardinality(Creating') /\ m = Cardinality(Creating)
  BY <1>1, Counts
<1>3. n <= m /\ nRuns \in Nat /\ nRuns + m <= MaxRuns /\ MaxRuns \in Nat BY <1>1, <1>2, Counts DEF RunRoom
<1>4. nRuns + n <= MaxRuns BY <1>3
<1> QED BY <1>1, <1>2, <1>4 DEF RunRoom

LEMMA RoomTaken ==
  ASSUME RunRoom, RoomForRun, UNCHANGED nRuns, NEW p, Creating' \subseteq Creating \cup {p}
  PROVE  RunRoom'
<1>1. IsFiniteSet(Creating \cup {p}) BY FS_AddElement DEF RunRoom
<1>2. Cardinality(Creating \cup {p}) = IF p \in Creating THEN Cardinality(Creating) ELSE Cardinality(Creating) + 1
  BY FS_AddElement, Zenon DEF RunRoom
<1>3. /\ IsFiniteSet(Creating') /\ Cardinality(Creating') \in Nat
      /\ Cardinality(Creating') <= Cardinality(Creating \cup {p})
  BY <1>1, FS_Subset, FS_CardinalityType
<1>4. PICK n \in Nat, m \in Nat : n = Cardinality(Creating') /\ m = Cardinality(Creating)
  BY <1>3, Counts
<1>5. n <= m + 1 /\ nRuns \in Nat /\ nRuns + m < MaxRuns /\ MaxRuns \in Nat
  BY <1>2, <1>3, <1>4, Counts DEF RunRoom
<1>6. nRuns + n <= MaxRuns BY <1>5
<1> QED BY <1>3, <1>4, <1>6 DEF RunRoom

(* Who creates the row uses its room. *)
LEMMA RoomUsed ==
  ASSUME RunRoom, nRuns' = nRuns + 1, NEW p \in Creating, Creating' \subseteq Creating \ {p}
  PROVE  RunRoom' /\ nRuns + 1 \in Runs
<1>1. IsFiniteSet(Creating \ {p}) /\ Cardinality(Creating \ {p}) = Cardinality(Creating) - 1
  BY FS_RemoveElement DEF RunRoom
<1>2. /\ IsFiniteSet(Creating') /\ Cardinality(Creating') \in Nat
      /\ Cardinality(Creating') <= Cardinality(Creating \ {p})
  BY <1>1, FS_Subset, FS_CardinalityType
<1>3. PICK n \in Nat, m \in Nat : n = Cardinality(Creating') /\ m = Cardinality(Creating)
  BY <1>2, Counts
<1>4. n <= m - 1 /\ nRuns \in Nat /\ nRuns + m <= MaxRuns /\ MaxRuns \in Nat
  BY <1>1, <1>2, <1>3, Counts DEF RunRoom
<1>5. nRuns + 1 + n <= MaxRuns /\ nRuns + 1 \in 1..MaxRuns BY <1>4
<1> QED BY <1>2, <1>3, <1>4, <1>5 DEF RunRoom, Runs

LEMMA RoomForLog ==
  ASSUME RunRoom, RoomForRun, nRuns' = nRuns + 1, Creating' \subseteq Creating
  PROVE  RunRoom' /\ nRuns + 1 \in Runs
<1>1. IsFiniteSet(Creating') /\ Cardinality(Creating') <= Cardinality(Creating) /\ Cardinality(Creating') \in Nat
  BY FS_Subset, FS_CardinalityType DEF RunRoom
<1>2. PICK n \in Nat, m \in Nat : n = Cardinality(Creating') /\ m = Cardinality(Creating)
  BY <1>1, Counts
<1>3. n <= m /\ nRuns \in Nat /\ nRuns + m < MaxRuns /\ MaxRuns \in Nat BY <1>1, <1>2, Counts DEF RunRoom
<1>4. nRuns + 1 + n <= MaxRuns /\ nRuns + 1 \in 1..MaxRuns BY <1>3
<1> QED BY <1>1, <1>2, <1>3, <1>4 DEF RunRoom, Runs

(* Those that do not move reserve what they have reserved. *)
LEMMA OthersCreate ==
  ASSUME NEW S \in SUBSET Procs, Only(S)
  PROVE  /\ Creating' \subseteq Creating \cup S
         /\ (\A p \in S : pc'[p] \notin {"release", "check", "create", "write"})
            => Creating' \subseteq Creating \ S
<1>1. \A p \in Procs \ S : p \in Creating' => p \in Creating
  <2> SUFFICES ASSUME NEW p \in Procs \ S, p \in Creating' PROVE p \in Creating OBVIOUS
  <2>1. pc'[p] = pc[p] /\ (p \in Requests => want'[p] = want[p]) BY DEF Only
  <2> QED BY <2>1 DEF Creating, At
<1>2. Creating' \subseteq Procs BY DEF Creating
<1>3. ASSUME NEW p \in S, pc'[p] \notin {"release", "check", "create", "write"} PROVE p \notin Creating'
  BY <1>3 DEF Creating, At
<1> QED BY <1>1, <1>2, <1>3

(* The locals                                                              *)

LEMMA ParkType ==
  ASSUME IInv, TInv, NEW S, Park(S), nRuns' = nRuns
  PROVE  /\ Placed' /\ Held'
         /\ Creating' \subseteq Creating \ S /\ Only(Procs \cap S)
<1>1. Only(S) /\ (\A p \in Procs \cap S : pc'[p] = "idle") /\ (\A w \in Workers \cap S : ev'[w] = 0)
  BY ParkOnly DEF IInv
<1>2. Only(Procs \cap S) BY <1>1, Kinds DEF Only
<1>3. Creating' \subseteq Creating \ S
  <2>1. Creating' \subseteq Creating \ (Procs \cap S) BY <1>1, <1>2, OthersCreate
  <2>2. Creating' \subseteq Procs BY DEF Creating
  <2> QED BY <2>1, <2>2
<1>4. Held'
  <2>1. nRuns \in Nat /\ MaxTurns \in Nat BY CoordinatorAssumption DEF CoordinatorAssumption, TInv, RunRoom
  <2>2. "TODO" \in Status BY DEF Status
  <2>3. seen' \in [Requests -> Status] BY <2>2 DEF Park, TInv, Held
  <2>4. new' \in [Procs -> 0..nRuns] BY <2>1 DEF Park, TInv, Held
  <2>5. log' \in [Workers -> 0..nRuns] BY <2>1 DEF Park, TInv, Held
  <2>6. turns' \in [Workers -> 0..MaxTurns] BY <2>1 DEF Park, TInv, Held
  <2> QED BY <2>3, <2>4, <2>5, <2>6 DEF Held
<1>5. Placed'
  <2>1. ASSUME NEW q \in Requests
        PROVE  pc'[q] \in RequestPC /\ (pc'[q] \in {"write", "notify"} => task'[q] \in Tasks)
    <3>1. CASE q \in S
      <4>1. pc'[q] = "idle" BY <1>1, <3>1, Kinds
      <4> QED BY <4>1 DEF RequestPC
    <3>2. CASE q \notin S
      <4>1. pc'[q] = pc[q] /\ task'[q] = task[q] BY <1>1, <3>2, Kinds DEF Only
      <4> QED BY <4>1 DEF TInv, Placed
    <3> QED BY <3>1, <3>2
  <2>2. ASSUME NEW w \in Workers PROVE pc'[w] \in WorkerPC /\ (pc'[w] = "idle" => ev'[w] = 0)
    <3>1. CASE w \in S
      <4>1. pc'[w] = "idle" /\ ev'[w] = 0 BY <1>1, <3>1, Kinds
      <4> QED BY <4>1 DEF WorkerPC
    <3>2. CASE w \notin S
      <4>1. pc'[w] = pc[w] /\ ev'[w] = ev[w] BY <1>1, <3>2, Kinds DEF Only
      <4> QED BY <4>1 DEF TInv, Placed
    <3> QED BY <3>1, <3>2
  <2> QED BY <2>1, <2>2 DEF Placed
<1> QED BY <1>2, <1>3, <1>4, <1>5

(* One process goes to a place of its kind. *)
LEMMA GotoType ==
  ASSUME IInv, TInv, NEW p \in Procs, NEW l, Goto(p, l), Only({p}),
         p \in Requests => l \in RequestPC,
         p \in Requests /\ l \in {"write", "notify"} => task'[p] \in Tasks,
         p \in Workers => l \in WorkerPC \ {"idle"}
  PROVE  /\ Placed' /\ pc'[p] = l
         /\ Creating' \subseteq Creating \cup {p}
         /\ l \notin {"release", "check", "create", "write"} => Creating' \subseteq Creating \ {p}
<1>1. pc'[p] = l BY DEF IInv, Locals, Goto
<1>2. \A r \in Procs \ {p} : pc'[r] = pc[r] /\ task'[r] = task[r] BY DEF Only
<1>3. \A w \in Workers \ {p} : ev'[w] = ev[w] BY DEF Only
<1>4. ASSUME NEW q \in Requests
      PROVE  pc'[q] \in RequestPC /\ (pc'[q] \in {"write", "notify"} => task'[q] \in Tasks)
  <2>1. CASE q = p BY <1>1, <2>1
  <2>2. CASE q # p BY <1>2, <2>2, Kinds DEF TInv, Placed
  <2> QED BY <2>1, <2>2
<1>5. ASSUME NEW w \in Workers PROVE pc'[w] \in WorkerPC /\ (pc'[w] = "idle" => ev'[w] = 0)
  <2>1. CASE w = p BY <1>1, <2>1
  <2>2. CASE w # p BY <1>2, <1>3, <2>2, Kinds DEF TInv, Placed
  <2> QED BY <2>1, <2>2
<1>6. Placed' BY <1>4, <1>5 DEF Placed
<1>7. {p} \in SUBSET Procs OBVIOUS
<1> QED BY <1>1, <1>6, <1>7, OthersCreate

LEMMA HeldType ==
  ASSUME TInv, NEW p \in Procs, nRuns' \in {nRuns, nRuns + 1},
         \/ seen' = seen
         \/ \E s \in Status : seen' = [seen EXCEPT ![p] = s],
         \/ new' = new
         \/ \E n \in 0..nRuns' : new' = [new EXCEPT ![p] = n],
         \/ log' = log
         \/ \E n \in 0..nRuns' : log' = [log EXCEPT ![p] = n],
         \/ turns' = turns
         \/ \E k \in 0..MaxTurns : turns' = [turns EXCEPT ![p] = k]
  PROVE  Held'
<1>1. nRuns \in Nat /\ nRuns' \in Nat /\ 0..nRuns \subseteq 0..nRuns' BY DEF TInv, RunRoom
<1>2. seen' \in [Requests -> Status] BY DEF TInv, Held
<1>3. new' \in [Procs -> 0..nRuns'] BY <1>1 DEF TInv, Held
<1>4. log' \in [Workers -> 0..nRuns'] BY <1>1 DEF TInv, Held
<1>5. turns' \in [Workers -> 0..MaxTurns] BY DEF TInv, Held
<1> QED BY <1>2, <1>3, <1>4, <1>5 DEF Held

LEMMA SameHeld ==
  ASSUME TInv, NEW p \in Procs, UNCHANGED <<nRuns, seen, new, log, turns>>
  PROVE  Held'
BY HeldType

LEMMA WorkerGoes ==
  ASSUME IInv, TInv, NEW w \in Workers, NEW l \in WorkerPC \ {"idle"}, Goto(w, l),
         \/ task' = task
         \/ \E t \in Tasks \cup {Null} : task' = [task EXCEPT ![w] = t],
         want' = want,
         \/ ev' = ev
         \/ \E e \in Nat : ev' = [ev EXCEPT ![w] = e]
  PROVE  /\ Placed' /\ Creating' \subseteq Creating \cup {w}
         /\ l \notin {"release", "check", "create", "write"} => Creating' \subseteq Creating \ {w}
<1>1. w \in Procs /\ w \notin Requests /\ l \in Places BY Kinds DEF Places
<1>2. Only({w}) BY <1>1, GotoOnly DEF IInv
<1> QED BY <1>1, <1>2, GotoType

LEMMA RequestGoes ==
  ASSUME IInv, TInv, NEW q \in Requests, NEW l \in RequestPC, Goto(q, l),
         \/ task' = task
         \/ \E t \in Tasks \cup {Null} : task' = [task EXCEPT ![q] = t],
         \/ want' = want
         \/ \E s \in Status : want' = [want EXCEPT ![q] = s],
         ev' = ev, task'[q] \in Tasks \/ l \notin {"write", "notify"}
  PROVE  /\ Placed' /\ Creating' \subseteq Creating \cup {q} /\ pc'[q] = l
         /\ l \notin {"release", "check", "create", "write"} => Creating' \subseteq Creating \ {q}
<1>1. q \in Procs /\ q \notin Workers /\ l \in Places BY Kinds DEF Places
<1>2. Only({q}) BY <1>1, GotoOnly DEF IInv
<1> QED BY <1>1, <1>2, GotoType

LEMMA FaultType == ASSUME TInv, Fault PROVE faults' \in 0..MaxFaults
BY CoordinatorAssumption DEF Fault, TInv, Others, CoordinatorAssumption

LEMMA EditType == ASSUME TInv, Edit PROVE edits' \in 0..MaxEdits
BY CoordinatorAssumption DEF Edit, TInv, Others, CoordinatorAssumption

-----------------------------------------------------------------------------
(* The actions of requests                                                 *)

LEMMA UpdateType ==
  ASSUME IInv, TInv, NEW q \in Requests, NEW t \in Tasks, NEW s \in Told \cup {"TODO"}, Update(q, t, s)
  PROVE  TInv'
<1> USE DEF taskVars, runVars, streamVars, workVars, runnerVars
<1>1. /\ Edit /\ Goto(q, "write") /\ task' = [task EXCEPT ![q] = t] /\ want' = [want EXCEPT ![q] = s]
      /\ seen' = [seen EXCEPT ![q] = status[t]] /\ (IF s = "TODO" THEN RoomForRun ELSE RoomForEvent)
      /\ UNCHANGED <<taskVars, runVars, streamVars, new, workVars, runnerVars, faults>>
  BY DEF Update
<1>2. q \in Procs /\ s \in Status /\ status[t] \in Status
  BY Kinds DEF Told, Status, TInv, Table
<1>3. "write" \in RequestPC BY DEF RequestPC
<1>4. task'[q] = t /\ want'[q] = s BY <1>1, <1>2 DEF IInv, Locals
<1>5. Placed' /\ Creating' \subseteq Creating \cup {q} /\ pc'[q] = "write"
  <2>1. /\ \E u \in Tasks \cup {Null} : task' = [task EXCEPT ![q] = u]
        /\ \E u \in Status : want' = [want EXCEPT ![q] = u]
        /\ Goto(q, "write") /\ ev' = ev /\ task'[q] \in Tasks
    BY <1>1, <1>2, <1>4
  <2> HIDE DEF taskVars, runVars, streamVars, workVars, runnerVars
  <2> QED BY <1>3, <2>1, RequestGoes
<1>6. Held' BY <1>1, <1>2, HeldType
<1>7. RunRoom'
  <2>1. CASE s = "TODO" BY <1>1, <1>5, <2>1, RoomTaken DEF TInv
  <2>2. CASE s # "TODO"
    <3>1. q \notin Creating' BY <1>4, <1>5, <2>2, Kinds DEF Creating, At
    <3>2. Creating' \subseteq Creating BY <1>5, <3>1
    <3> QED BY <1>1, <3>2, RoomKept DEF TInv
  <2> QED BY <2>1, <2>2
<1>8. Table' /\ Logs' BY <1>1 DEF TInv, Table, Logs
<1>9. Others' BY <1>1, EditType DEF TInv, Others
<1> QED BY <1>5, <1>6, <1>7, <1>8, <1>9 DEF TInv

LEMMA WriteType == ASSUME IInv, TInv, NEW q \in Requests, Write(q) PROVE TInv'
<1> USE DEF runVars, streamVars, localVars, workVars, runnerVars, boundVars
<1>1. pc[q] = "write" /\ UNCHANGED <<runVars, streamVars, runnerVars, boundVars>> BY DEF Write, At
<1>2. q \in Procs /\ task[q] \in Tasks /\ want[q] \in Status
  BY <1>1, Kinds DEF TInv, Placed, IInv, Locals
<1>3. Table'
  <2>1. status' = [status EXCEPT ![task[q]] = want[q]] /\ halted' = halted \ {task[q]}
        /\ unseen' \in {unseen, unseen \cup {task[q]}}
        /\ missed' \in {missed, missed \cup {task[q]}, missed \ {task[q]}}
    BY DEF Write
  <2> QED BY <1>2, <2>1 DEF TInv, Table
<1>4. Placed' /\ Held' /\ Creating' \subseteq Creating
  <2>1. CASE want[q] = "TODO"
    <3>1. Goto(q, "check") /\ UNCHANGED localVars BY <2>1 DEF Write
    <3>2. "check" \in RequestPC BY DEF RequestPC, Dispatch
    <3>3. Placed' /\ Creating' \subseteq Creating \cup {q} BY <3>1, <3>2, RequestGoes
    <3>4. q \in Creating BY <1>1, <1>2, <2>1 DEF Creating, At
    <3> QED BY <1>1, <1>2, <3>1, <3>3, <3>4, SameHeld
  <2>2. CASE want[q] # "TODO" /\ Tells(q)
    <3>1. Goto(q, "notify") /\ UNCHANGED localVars BY <2>2 DEF Write
    <3>2. "notify" \in RequestPC BY DEF RequestPC
    <3>3. Placed' /\ Creating' \subseteq Creating \ {q} BY <1>2, <3>1, <3>2, RequestGoes
    <3> QED BY <1>1, <1>2, <3>1, <3>3, SameHeld
  <2>3. CASE want[q] # "TODO" /\ ~Tells(q)
    <3>1. Park({q}) BY <2>3 DEF Write
    <3> QED BY <1>1, <3>1, ParkType
  <2> QED BY <2>1, <2>2, <2>3
<1>5. RunRoom' BY <1>1, <1>4, RoomKept DEF TInv
<1>6. Logs' /\ Others' BY <1>1 DEF TInv, Logs, Others
<1> QED BY <1>3, <1>4, <1>5, <1>6 DEF TInv

LEMMA CommentType == ASSUME IInv, TInv, NEW q \in Requests, NEW t \in Tasks, Comment(q, t) PROVE TInv'
<1> USE DEF runVars, streamVars, localVars, workVars, runnerVars
<1>1. /\ Edit /\ Goto(q, "notify") /\ task' = [task EXCEPT ![q] = t]
      /\ unseen' = unseen \cup {t} /\ missed' = missed \ {t}
      /\ UNCHANGED <<status, halted, runVars, streamVars, want, seen, new, workVars, runnerVars, faults>>
  BY DEF Comment
<1>2. q \in Procs /\ "notify" \in RequestPC BY Kinds DEF RequestPC
<1>3. task'[q] = t BY <1>1, <1>2 DEF IInv, Locals
<1>4. Placed' /\ Creating' \subseteq Creating \ {q}
  <2>1. /\ \E u \in Tasks \cup {Null} : task' = [task EXCEPT ![q] = u]
        /\ Goto(q, "notify") /\ want' = want /\ ev' = ev /\ task'[q] \in Tasks
    BY <1>1, <1>3
  <2> QED BY <1>2, <2>1, RequestGoes
<1>5. RunRoom' BY <1>1, <1>4, RoomKept DEF TInv
<1>6. Held' BY <1>1, <1>2, SameHeld
<1>7. Table' /\ Logs' BY <1>1 DEF TInv, Table, Logs
<1>8. Others' BY <1>1, EditType DEF TInv, Others
<1> QED BY <1>4, <1>5, <1>6, <1>7, <1>8 DEF TInv

LEMMA AnsweredType ==
  ASSUME IInv, TInv, NEW q \in Requests, Publish(q) \/ RequestFails(q)
  PROVE  TInv'
<1> USE DEF taskVars, runVars, streamVars, runnerVars, boundVars
<1>1. Park({q}) /\ UNCHANGED <<status, unseen, halted, runVars, cursor, decided, runner, stale, edits>>
  BY DEF Publish, RequestFails
<1>2. missed' \subseteq Tasks
  <2>1. CASE Publish(q) BY <2>1 DEF Publish, TInv, Table
  <2>2. CASE RequestFails(q)
    <3>1. pc[q] = "notify" => task[q] \in Tasks BY DEF TInv, Placed
    <3> QED BY <2>2, <3>1 DEF RequestFails, At, TInv, Table
  <2> QED BY <2>1, <2>2
<1>3. faults' \in 0..MaxFaults
  <2>1. CASE Publish(q) BY <2>1 DEF Publish, TInv, Others
  <2>2. CASE RequestFails(q) BY <2>2, FaultType DEF RequestFails
  <2> QED BY <2>1, <2>2
<1>4. Placed' /\ Held' /\ Creating' \subseteq Creating BY <1>1, ParkType
<1>5. RunRoom' BY <1>1, <1>4, RoomKept DEF TInv
<1>6. Table' /\ Logs' BY <1>1, <1>2 DEF TInv, Table, Logs
<1>7. Others' BY <1>1, <1>3 DEF TInv, Others
<1> QED BY <1>4, <1>5, <1>6, <1>7 DEF TInv

-----------------------------------------------------------------------------
(* The actions both have                                                   *)

LEMMA ReturnType ==
  ASSUME IInv, TInv, NEW p \in Procs, Return(p), UNCHANGED nRuns
  PROVE  Placed' /\ Held' /\ Creating' \subseteq Creating \ {p}
<1>1. CASE p \in Requests
  <2>1. Park({p}) BY <1>1 DEF Return
  <2> QED BY <2>1, ParkType
<1>2. CASE p \notin Requests
  <2>1. Goto(p, "decide") /\ task' = [task EXCEPT ![p] = Null] /\ new' = [new EXCEPT ![p] = 0]
        /\ UNCHANGED <<want, seen, ev, log, turns>>
    BY <1>2 DEF Return, workVars
  <2>2. p \in Workers /\ "decide" \in WorkerPC \ {"idle"} BY <1>2 DEF Procs, WorkerPC, InTry
  <2>3. Placed' /\ Creating' \subseteq Creating \ {p} BY <2>1, <2>2, WorkerGoes
  <2>4. 0 \in 0..nRuns' BY DEF TInv, RunRoom
  <2>5. Held' BY <2>1, <2>4, HeldType
  <2> QED BY <2>3, <2>5
<1> QED BY <1>1, <1>2

LEMMA NewRunType ==
  ASSUME Logs, nRuns + 1 \in Runs, NEW t \in Tasks \cup {Null}, NEW by \in {"agent", "coordinator"},
         NEW to \in {"none", "logged"}, NewRun(t, by, to)
  PROVE  Logs'
BY DEF Logs, NewRun

LEMMA DispatchType == ASSUME IInv, TInv, NEW p \in Procs, DispatchStep(p) PROVE TInv'
<1> USE DEF taskVars, runVars, streamVars, localVars, workVars, runnerVars, boundVars
<1>1. UNCHANGED <<taskVars, streamVars, runnerVars, boundVars>>
  BY DEF DispatchStep, Check, CreateLog, Xadd
<1>2. Table' /\ Others' BY <1>1 DEF TInv, Table, Others
<1>3. {"create", "xadd"} \subseteq RequestPC \cap (WorkerPC \ {"idle"})
  BY DEF RequestPC, WorkerPC, InTry, Dispatch
<1>4. ASSUME NEW l \in {"create", "xadd"}, Goto(p, l), UNCHANGED <<task, want, ev>>
      PROVE  /\ Placed' /\ Creating' \subseteq Creating \cup {p}
             /\ l = "xadd" => Creating' \subseteq Creating \ {p}
  <2>1. CASE p \in Requests BY <1>3, <1>4, <2>1, RequestGoes
  <2>2. CASE p \in Workers BY <1>3, <1>4, <2>2, WorkerGoes
  <2> QED BY <2>1, <2>2 DEF Procs
<1>5. CASE Check(p)
  <2>1. p \in Creating BY <1>5 DEF Check, At, Creating
  <2>2. Placed' /\ Held' /\ Creating' \subseteq Creating
    <3>1. CASE RunningOf(task[p]) # {}
      <4>1. Return(p) /\ UNCHANGED nRuns BY <1>5, <3>1 DEF Check
      <4> QED BY <4>1, ReturnType
    <3>2. CASE RunningOf(task[p]) = {}
      <4>1. Goto(p, "create") /\ UNCHANGED <<task, want, seen, new, ev, log, turns, nRuns>>
        BY <1>5, <3>2 DEF Check
      <4> QED BY <2>1, <4>1, <1>4, SameHeld
    <3> QED BY <3>1, <3>2
  <2>3. RunRoom' BY <1>5, <2>2, RoomKept DEF Check, TInv
  <2>4. Logs' BY <1>5 DEF Check, TInv, Logs
  <2> QED BY <1>2, <2>2, <2>3, <2>4 DEF TInv
<1>6. CASE CreateLog(p)
  <2>1. Goto(p, "xadd") /\ NewRun(task[p], "agent", "logged") /\ new' = [new EXCEPT ![p] = nRuns + 1]
        /\ UNCHANGED <<task, want, seen, ev, log, turns>>
    BY <1>6 DEF CreateLog
  <2>2. p \in Creating BY <1>6 DEF CreateLog, At, Creating
  <2>3. Placed' /\ Creating' \subseteq Creating \ {p} BY <1>4, <2>1
  <2>4. nRuns' = nRuns + 1 BY <2>1 DEF NewRun
  <2>5. RunRoom' /\ nRuns + 1 \in Runs BY <2>2, <2>3, <2>4, RoomUsed DEF TInv
  <2>6. Logs'
    <3>1. task[p] \in Tasks \cup {Null} BY DEF IInv, Locals
    <3> QED BY <2>1, <2>5, <3>1, NewRunType DEF TInv
  <2>7. Held'
    <3>1. nRuns + 1 \in 0..nRuns' BY <2>4 DEF TInv, RunRoom
    <3> QED BY <2>1, <2>4, <3>1, HeldType
  <2> QED BY <1>2, <2>3, <2>5, <2>6, <2>7 DEF TInv
<1>7. CASE Xadd(p)
  <2>1. Return(p) /\ stage' = [stage EXCEPT ![new[p]] = "queued"]
        /\ UNCHANGED <<nRuns, runTask, runLog, runBy, logLost>>
    BY <1>7 DEF Xadd
  <2>2. Placed' /\ Held' /\ Creating' \subseteq Creating BY <2>1, ReturnType
  <2>3. RunRoom' BY <2>1, <2>2, RoomKept DEF TInv
  <2>4. Logs' BY <2>1 DEF TInv, Logs
  <2> QED BY <1>2, <2>2, <2>3, <2>4 DEF TInv
<1> QED BY <1>5, <1>6, <1>7 DEF DispatchStep

-----------------------------------------------------------------------------
(* The actions of workers                                                  *)

(* A worker whose step leaves the board, the logs and the bounds alone. *)
LEMMA QuietType ==
  ASSUME IInv, TInv, Placed', Held', Creating' \subseteq Creating, UNCHANGED nRuns,
         Table', Logs', Others'
  PROVE  TInv'
BY RoomKept DEF TInv

LEMMA ParkedType ==
  ASSUME IInv, TInv, NEW S \in SUBSET Workers, Park(S), UNCHANGED nRuns, Table', Logs', Others'
  PROVE  TInv'
<1>1. Placed' /\ Held' /\ Creating' \subseteq Creating BY ParkType
<1> QED BY <1>1, QuietType

LEMMA StoppedType ==
  ASSUME IInv, TInv, NEW w \in Workers, CannotLoad(w) \/ Fail(w) \/ Ack(w) \/ GiveUp(w)
  PROVE  TInv'
<1> USE DEF taskVars, runVars, streamVars, runnerVars, boundVars
<1>1. Park({w}) /\ UNCHANGED <<taskVars, nRuns, runTask, runBy, stage, cursor, decided, runner, stale, edits>>
  BY DEF CannotLoad, Fail, Ack, GiveUp, CloseLog
<1>2. Table' BY <1>1 DEF TInv, Table
<1>3. runLog' \in [Runs -> {"none", "RUNNING", "over"}]
  <2>1. CASE CloseLog(w) BY <2>1 DEF CloseLog, TInv, Logs
  <2>2. CASE runLog' = runLog BY <2>2 DEF TInv, Logs
  <2> QED BY <2>1, <2>2 DEF CannotLoad, Fail, Ack, GiveUp
<1>4. logLost' \subseteq Runs
  <2>1. log[w] \in 0..nRuns /\ nRuns \in Nat /\ nRuns <= MaxRuns
    BY Counts, CoordinatorAssumption DEF TInv, Held, RunRoom, CoordinatorAssumption
  <2>2. {log[w]} \ {0} \subseteq Runs BY <2>1, CoordinatorAssumption DEF Runs, CoordinatorAssumption
  <2>3. logLost' = logLost \/ logLost' = logLost \cup ({log[w]} \ {0})
    BY DEF CannotLoad, Fail, Ack, GiveUp, CloseLog
  <2> QED BY <2>2, <2>3 DEF TInv, Logs
<1>5. Logs' BY <1>1, <1>3, <1>4 DEF TInv, Logs
<1>6. faults' \in 0..MaxFaults
  <2>1. CASE faults' = faults BY <2>1 DEF TInv, Others
  <2>2. CASE Fault BY <2>2, FaultType
  <2> QED BY <2>1, <2>2 DEF CannotLoad, Fail, Ack, GiveUp
<1>7. Others' BY <1>1, <1>6 DEF TInv, Others
<1> QED BY <1>1, <1>2, <1>5, <1>7, ParkedType

LEMMA Goes ==
  {"load", "log", "decide", "check", "release", "finish", "fail", "ack"} \subseteq WorkerPC \ {"idle"}
BY DEF WorkerPC, InTry, Dispatch

(* Places on the way that reserve nothing. *)
LEMMA OnwardType ==
  ASSUME IInv, TInv, NEW w \in Workers,
         Load(w) \/ LogFails(w) \/ Conclude(w) \/ Finish(w) \/ Raise(w)
  PROVE  TInv'
<1> USE DEF taskVars, runVars, streamVars, localVars, workVars, runnerVars, boundVars
<1>1. w \in Procs BY Kinds
<1>2. /\ \E l \in {"log", "decide", "finish", "ack", "fail"} : Goto(w, l)
      /\ UNCHANGED <<localVars, status, missed, halted, nRuns, runTask, runBy, stage, logLost, cursor,
                     runner, stale, edits>>
  BY DEF Load, LogFails, Conclude, Finish, Raise, CloseLog
<1>3. Placed' /\ Creating' \subseteq Creating
  <2>1. PICK l \in {"log", "decide", "finish", "ack", "fail"} : Goto(w, l) BY <1>2
  <2>2. task' = task /\ want' = want /\ ev' = ev BY <1>2
  <2> QED BY <2>1, <2>2, WorkerGoes, Goes
<1>4. Held' BY <1>1, <1>2, SameHeld
<1>5. Table'
  <2>1. unseen' \subseteq unseen BY DEF Load, LogFails, Conclude, Finish, Raise
  <2> QED BY <1>2, <2>1 DEF TInv, Table
<1>6. runLog' \in [Runs -> {"none", "RUNNING", "over"}]
  <2>1. CASE CloseLog(w) BY <2>1 DEF CloseLog, TInv, Logs
  <2>2. CASE runLog' = runLog BY <2>2 DEF TInv, Logs
  <2> QED BY <2>1, <2>2 DEF Load, LogFails, Conclude, Finish, Raise
<1>7. Logs' BY <1>2, <1>6 DEF TInv, Logs
<1>8. faults' \in 0..MaxFaults
  <2>1. CASE faults' = faults BY <2>1 DEF TInv, Others
  <2>2. CASE Fault BY <2>2, FaultType
  <2> QED BY <2>1, <2>2 DEF Load, LogFails, Conclude, Finish, Raise
<1>9. decided' \subseteq 1..cursor
  <2>1. CASE Finish(w)
    <3>1. pc[w] # "idle" /\ decided' = decided \cup {ev[w]} BY <2>1 DEF Finish, At
    <3>2. ev[w] \in 1..cursor BY <3>1 DEF IInv, WorkersOK, Stream
    <3> QED BY <3>1, <3>2 DEF TInv, Others
  <2>2. CASE decided' = decided BY <2>2 DEF TInv, Others
  <2> QED BY <2>1, <2>2 DEF Load, LogFails, Conclude, Finish, Raise
<1>10. Others' BY <1>2, <1>8, <1>9 DEF TInv, Others
<1> QED BY <1>2, <1>3, <1>4, <1>5, <1>7, <1>10, QuietType

LEMMA LogRunType == ASSUME IInv, TInv, NEW w \in Workers, LogRun(w) PROVE TInv'
<1> USE DEF localVars, workVars
<1>1. /\ RoomForRun /\ Goto(w, "decide") /\ NewRun(evTask[ev[w]], "coordinator", "none")
      /\ log' = [log EXCEPT ![w] = nRuns + 1] /\ unseen' = unseen \ {evTask[ev[w]]}
      /\ UNCHANGED <<status, missed, halted, task, new, want, seen, ev, turns>>
      /\ pc[w] = "log"
  BY DEF LogRun, At
<1>2. UNCHANGED <<decided, cursor, runner, stale, faults, edits>>
  BY DEF LogRun, streamVars, runnerVars, boundVars
<1>3. Placed' /\ Creating' \subseteq Creating BY <1>1, WorkerGoes, Goes
<1>4. nRuns' = nRuns + 1 BY <1>1 DEF NewRun
<1>5. RunRoom' /\ nRuns + 1 \in Runs BY <1>1, <1>3, <1>4, RoomForLog DEF TInv
<1>6. Logs'
  <2>1. ev[w] \in 1..nEvents /\ nEvents <= MaxEvents
    <3>1. ev[w] \in 1..cursor /\ cursor \in 0..nEvents /\ nEvents \in Nat
      BY <1>1 DEF IInv, WorkersOK, Stream
    <3>2. PICK n \in Nat : n = Cardinality(Promises) BY FewPromises
    <3>3. nEvents + n <= MaxEvents BY <3>2 DEF IInv, RoomOK
    <3> QED BY <3>1, <3>3, CoordinatorAssumption DEF CoordinatorAssumption
  <2>2. ev[w] \in Events BY <2>1, CoordinatorAssumption DEF Events, CoordinatorAssumption, IInv, Stream
  <2>3. evTask[ev[w]] \in Tasks \cup {Null} BY <2>2 DEF IInv, Stream
  <2> QED BY <1>1, <1>5, <2>3, NewRunType DEF TInv
<1>7. Held'
  <2>1. nRuns + 1 \in 0..nRuns' BY <1>4 DEF TInv, RunRoom
  <2>2. w \in Procs BY Kinds
  <2> QED BY <1>1, <1>4, <2>1, <2>2, HeldType
<1>8. Table' BY <1>1 DEF TInv, Table
<1>9. Others' BY <1>2 DEF TInv, Others
<1> QED BY <1>3, <1>5, <1>6, <1>7, <1>8, <1>9 DEF TInv

LEMMA TurnType ==
  ASSUME TInv, NEW w \in Workers, Turn(w), UNCHANGED <<nRuns, seen, new, log>>
  PROVE  Held'
<1>1. turns[w] + 1 \in 0..MaxTurns
  BY CoordinatorAssumption DEF Turn, TInv, Held, CoordinatorAssumption
<1>2. turns' = [turns EXCEPT ![w] = turns[w] + 1] BY DEF Turn
<1>3. w \in Procs BY Kinds
<1> QED BY <1>1, <1>2, <1>3, HeldType

LEMMA ProceedType ==
  ASSUME IInv, TInv, NEW w \in Workers, NEW t \in Tasks, Proceed(w, t)
  PROVE  TInv'
<1>1. /\ Turn(w) /\ RoomForRun /\ task' = [task EXCEPT ![w] = t]
      /\ UNCHANGED <<taskVars, runVars, streamVars, new, want, seen, ev, log, runnerVars, boundVars>>
      /\ \E l \in {"check", "release"} : Goto(w, l)
  BY DEF Proceed
<1>2. Placed' /\ Creating' \subseteq Creating \cup {w}
  <2>1. PICK l \in {"check", "release"} : Goto(w, l) BY <1>1
  <2>2. l \in WorkerPC \ {"idle"} BY Goes
  <2>3. (\E u \in Tasks \cup {Null} : task' = [task EXCEPT ![w] = u]) /\ want' = want /\ ev' = ev
    BY <1>1
  <2> QED BY <2>1, <2>2, <2>3, WorkerGoes
<1>3. RunRoom' BY <1>1, <1>2, RoomTaken DEF TInv, runVars
<1>4. Held' BY <1>1, TurnType DEF runVars
<1>5. Table' /\ Logs' /\ Others'
  BY <1>1 DEF TInv, Table, Logs, Others, taskVars, runVars, streamVars, runnerVars, boundVars
<1> QED BY <1>2, <1>3, <1>4, <1>5 DEF TInv

LEMMA ReleaseType == ASSUME IInv, TInv, NEW w \in Workers, Release(w) PROVE TInv'
<1>1. /\ pc[w] = "release" /\ Goto(w, "check") /\ status' = [status EXCEPT ![task[w]] = "TODO"]
      /\ halted' = halted \ {task[w]}
      /\ UNCHANGED <<unseen, missed, runVars, streamVars, localVars, runnerVars, boundVars>>
  BY DEF Release, At
<1>2. w \in Procs BY Kinds
<1>3. task' = task /\ want' = want /\ ev' = ev BY <1>1 DEF localVars, workVars
<1>4. Placed' /\ Creating' \subseteq Creating \cup {w} BY <1>1, <1>3, WorkerGoes, Goes
<1>5. w \in Creating BY <1>1, <1>2 DEF Creating
<1>6. Creating' \subseteq Creating BY <1>4, <1>5
<1>7. Held' BY <1>1, <1>2, SameHeld DEF localVars, workVars, runVars
<1>8. Table'
  <2>1. "TODO" \in Status BY DEF Status
  <2> QED BY <1>1, <2>1 DEF TInv, Table
<1>9. Logs' /\ Others'
  BY <1>1 DEF TInv, Logs, Others, runVars, streamVars, runnerVars, boundVars
<1> QED BY <1>1, <1>4, <1>6, <1>7, <1>8, <1>9, QuietType DEF runVars

LEMMA AbortType == ASSUME IInv, TInv, NEW w \in Workers, Abort(w) PROVE TInv'
<1> DEFINE T == {t \in SameProject(w) : status[t] \in {"TODO", "IN_PROGRESS", "BACKLOG"}}
<1>1. /\ Turn(w) /\ status' = [t \in Tasks |-> IF t \in T THEN "BLOCKED" ELSE status[t]]
      /\ halted' = halted \cup T
      /\ UNCHANGED <<unseen, missed, runVars, streamVars, pc, task, new, want, seen, ev, log,
                     runnerVars, boundVars>>
  BY DEF Abort
<1>2. T \subseteq Tasks BY DEF SameProject
<1>3. Table'
  <2>1. "BLOCKED" \in Status BY DEF Status
  <2>2. status' \in [Tasks -> Status] BY <1>1, <2>1 DEF TInv, Table
  <2>3. halted' \subseteq Tasks BY <1>1, <1>2 DEF TInv, Table
  <2> QED BY <1>1, <2>2, <2>3 DEF TInv, Table
<1>4. Held' BY <1>1, TurnType DEF runVars
<1>5. Placed' /\ Creating' \subseteq Creating BY <1>1 DEF TInv, Placed, Creating, At
<1>6. Logs' /\ Others'
  BY <1>1 DEF TInv, Logs, Others, runVars, streamVars, runnerVars, boundVars
<1> QED BY <1>1, <1>3, <1>4, <1>5, <1>6, QuietType DEF runVars

LEMMA BeginType ==
  ASSUME IInv, TInv, NEW w \in Workers, NEW e \in Nat, Begin(w, e), UNCHANGED runVars,
         Table', Others'
  PROVE  TInv'
<1>1. /\ Goto(w, "load") /\ ev' = [ev EXCEPT ![w] = e]
      /\ UNCHANGED <<task, want, seen, new, log, turns>>
  BY DEF Begin
<1>2. Placed' /\ Creating' \subseteq Creating BY <1>1, WorkerGoes, Goes
<1>3. w \in Procs BY Kinds
<1>4. Held' BY <1>1, <1>3, SameHeld DEF runVars
<1>5. Logs' BY DEF runVars, TInv, Logs
<1> QED BY <1>2, <1>4, <1>5, QuietType DEF runVars

LEMMA TakenType ==
  ASSUME IInv, TInv, NEW n \in Runners, Read(n) \/ \E e \in Events : Claim(n, e)
  PROVE  TInv'
<1> USE DEF taskVars, streamVars, runnerVars, boundVars
<1>1. CASE Read(n)
  <2>1. PICK w \in Workers : w = <<n, "read">> BY Kinds
  <2>2. Begin(w, cursor + 1) /\ cursor' = cursor + 1
        /\ UNCHANGED <<taskVars, runVars, decided, runnerVars, boundVars>>
    BY <1>1, <2>1 DEF Read
  <2>3. cursor \in Nat /\ cursor + 1 \in Nat BY DEF IInv, Stream
  <2>4. decided' \subseteq 1..cursor' BY <2>2, <2>3 DEF TInv, Others
  <2>5. Table' /\ Others' BY <2>2, <2>4 DEF TInv, Table, Others
  <2> QED BY <2>2, <2>3, <2>5, BeginType
<1>2. ASSUME NEW e \in Events, Claim(n, e) PROVE TInv'
  <2>1. PICK w \in Workers : w = <<n, "claim">> BY Kinds
  <2>2. Begin(w, e) /\ UNCHANGED <<taskVars, runVars, streamVars, runnerVars, boundVars>>
    BY <1>2, <2>1 DEF Claim
  <2>3. e \in Nat BY CoordinatorAssumption DEF Events, CoordinatorAssumption
  <2>4. Table' /\ Others' BY <2>2 DEF TInv, Table, Others
  <2> QED BY <2>2, <2>3, <2>4, BeginType
<1> QED BY <1>1, <1>2

LEMMA WorkerType ==
  ASSUME IInv, TInv, NEW w \in Workers, WorkerStep(w) \/ Raise(w) \/ GiveUp(w)
  PROVE  TInv'
<1>1. w \in Procs BY Kinds
<1> QED
  BY <1>1, StoppedType, OnwardType, LogRunType, ProceedType, ReleaseType, DispatchType, AbortType
  DEF WorkerStep

-----------------------------------------------------------------------------
(* The runners, and the runs of agents                                     *)

LEMMA RunnerDownType == ASSUME IInv, TInv, NEW n \in Runners, Down(n) \/ ReadLoopDies(n) PROVE TInv'
<1>1. /\ \E s \in {"down", "deaf"} : SetRunner(n, s)
      /\ stale' = stale \/ stale' = [stale EXCEPT ![n] = {}]
      /\ \E S \in SUBSET Workers : Park(S)
      /\ Fault /\ UNCHANGED <<taskVars, runVars, streamVars, edits>>
  BY Kinds DEF Down, ReadLoopDies
<1>2. Table' /\ Logs' BY <1>1 DEF taskVars, runVars, TInv, Table, Logs
<1>3. Others' BY <1>1, FaultType DEF SetRunner, streamVars, TInv, Others
<1> QED BY <1>1, <1>2, <1>3, ParkedType DEF runVars

LEMMA NobodyType ==
  ASSUME IInv, TInv, UNCHANGED <<procVars, nRuns>>, Table', Logs', Others'
  PROVE  TInv'
<1> USE DEF procVars, localVars, workVars
<1>1. Placed' /\ Creating' \subseteq Creating BY DEF TInv, Placed, Creating, At
<1>2. Held' BY DEF TInv, Held
<1> QED BY <1>1, <1>2, QuietType

LEMMA RunnerUpType == ASSUME IInv, TInv, NEW n \in Runners, Start(n) \/ Revert(n) PROVE TInv'
<1> USE DEF taskVars, runVars, streamVars, boundVars
<1>1. CASE Start(n)
  <2>1. Table' BY <1>1 DEF Start, TInv, Table
  <2>2. runLog' \in [Runs -> {"none", "RUNNING", "over"}] BY <1>1 DEF Start, TInv, Logs
  <2>3. Logs' BY <1>1, <2>2 DEF Start, TInv, Logs
  <2>4. runner' \in [Runners -> {"down", "reverting", "up", "deaf"}]
    BY <1>1 DEF Start, SetRunner, TInv, Others
  <2>5. stale' \in [Runners -> SUBSET Tasks]
    <3>1. {t \in Tasks : \E r \in Running : runTask[r] = t} \in SUBSET Tasks OBVIOUS
    <3> QED BY <1>1, <3>1 DEF Start, TInv, Others
  <2>6. Others' BY <1>1, <2>4, <2>5 DEF Start, TInv, Others
  <2> QED BY <1>1, <2>1, <2>3, <2>6, NobodyType DEF Start
<1>2. CASE Revert(n)
  <2>1. status' \in [Tasks -> Status]
    <3>1. "TODO" \in Status BY DEF Status
    <3> QED BY <1>2, <3>1 DEF Revert, TInv, Table
  <2>2. Table' BY <1>2, <2>1 DEF Revert, TInv, Table
  <2>3. Logs' BY <1>2 DEF Revert, TInv, Logs
  <2>4. Others' BY <1>2 DEF Revert, SetRunner, TInv, Others
  <2> QED BY <1>2, <2>2, <2>3, <2>4, NobodyType DEF Revert
<1> QED BY <1>1, <1>2

LEMMA AgentType ==
  ASSUME IInv, TInv, NEW r \in Runs,
         AgentStart(r) \/ \E s \in {"DONE", "BLOCKED", "TODO"} : AgentEnd(r, s)
  PROVE  TInv'
<1> USE DEF streamVars, runnerVars, boundVars
<1>1. UNCHANGED <<unseen, missed, halted, nRuns, runTask, runBy, logLost, streamVars, procVars, runnerVars,
                  boundVars>>
  BY DEF AgentStart, AgentEnd
<1>2. status' \in [Tasks -> Status]
  <2>1. CASE AgentStart(r)
    <3>1. "IN_PROGRESS" \in Status BY DEF Status
    <3> QED BY <2>1, <3>1 DEF AgentStart, TInv, Table
  <2>2. ASSUME NEW s \in {"DONE", "BLOCKED", "TODO"}, AgentEnd(r, s) PROVE status' \in [Tasks -> Status]
    <3>1. s \in Status BY DEF Status
    <3>2. PICK u : u = runTask[r] OBVIOUS
    <3>3. \/ status' = [status EXCEPT ![u] = status[u]]
          \/ status' = [status EXCEPT ![u] = s]
      BY <2>2, <3>2 DEF AgentEnd
    <3> QED BY <3>1, <3>3 DEF TInv, Table
  <2> QED BY <2>1, <2>2
<1>3. Table' BY <1>1, <1>2 DEF TInv, Table
<1>4. stage' \in [Runs -> {"none", "logged", "queued", "run", "over"}]
      /\ runLog' \in [Runs -> {"none", "RUNNING", "over"}]
  BY DEF AgentStart, AgentEnd, TInv, Logs
<1>5. Logs' BY <1>1, <1>4 DEF TInv, Logs
<1>6. Others' BY <1>1 DEF TInv, Others
<1> QED BY <1>1, <1>3, <1>5, <1>6, NobodyType

-----------------------------------------------------------------------------
LEMMA TypeInit == Init => TInv
<1> SUFFICES ASSUME Init PROVE TInv OBVIOUS
<1>1. Table BY DEF Init, Table, Status
<1>2. Logs BY DEF Init, Logs
<1>3. RunRoom
  <2>1. Creating = {} BY Kinds DEF Init, Creating, At
  <2> QED BY <2>1, FS_EmptySet, CoordinatorAssumption DEF Init, RunRoom, CoordinatorAssumption
<1>4. Placed BY Kinds DEF Init, Placed, RequestPC, WorkerPC
<1>5. Held BY CoordinatorAssumption DEF Init, Held, Status, CoordinatorAssumption
<1>6. Others BY CoordinatorAssumption DEF Init, Others, CoordinatorAssumption
<1> QED BY <1>1, <1>2, <1>3, <1>4, <1>5, <1>6 DEF TInv

LEMMA TypeStep == IInv /\ TInv /\ [Next]_vars => TInv'
<1> SUFFICES ASSUME IInv, TInv, [Next]_vars PROVE TInv' OBVIOUS
<1>1. ASSUME NEW q \in Requests,
             \/ \E t \in Tasks : Comment(q, t) \/ \E s \in Told \cup {"TODO"} : Update(q, t, s)
             \/ RequestStep(q) \/ RequestFails(q)
      PROVE  TInv'
  BY <1>1, CommentType, UpdateType, WriteType, AnsweredType, DispatchType, Kinds DEF RequestStep
<1>2. ASSUME NEW n \in Runners,
             \/ Read(n) \/ \E e \in Events : Claim(n, e)
             \/ Down(n) \/ ReadLoopDies(n) \/ Start(n) \/ Revert(n)
      PROVE  TInv'
  BY <1>2, TakenType, RunnerDownType, RunnerUpType
<1>3. CASE UNCHANGED vars
  <2> USE DEF vars, taskVars, runVars, streamVars, procVars, runnerVars, boundVars
  <2>1. Table' /\ Logs' BY <1>3 DEF TInv, Table, Logs
  <2>2. Others' BY <1>3 DEF TInv, Others
  <2> QED BY <1>3, <2>1, <2>2, NobodyType
<1> QED BY <1>1, <1>2, <1>3, WorkerType, AgentType DEF Next

(* The log and the run a process carries are rows of the table, its task is one while it is
   being written or told about (tasks.service.ts); a worker without an event is idle, one with
   an event has read it (coordinator.py); and what is begun finds room for its rows and its
   event, whatever else is under way. *)
THEOREM Types == Spec => []TypeOK
<1>1. IInv /\ TInv => TypeOK
  <2> SUFFICES ASSUME IInv, TInv PROVE TypeOK OBVIOUS
  <2>1. nRuns \in 0..MaxRuns
    <3>1. PICK n \in Nat : n = Cardinality(Creating) BY Counts DEF TInv
    <3>2. nRuns \in Nat /\ nRuns + n <= MaxRuns /\ MaxRuns \in Nat BY <3>1, Counts DEF TInv, RunRoom
    <3> QED BY <3>2
  <2>2. nEvents \in 0..MaxEvents
    <3>1. PICK n \in Nat : n = Cardinality(Promises) BY FewPromises
    <3>2. nEvents \in Nat /\ nEvents + n <= MaxEvents /\ MaxEvents \in Nat
      BY <3>1, CoordinatorAssumption DEF IInv, Stream, RoomOK, CoordinatorAssumption
    <3> QED BY <3>2
  <2>3. ev \in [Workers -> 0..cursor] /\ (\A w \in Workers : pc[w] = "idle" <=> ev[w] = 0)
    BY DEF IInv, Locals, WorkersOK, TInv, Placed
  <2> QED BY <2>1, <2>2, <2>3
    DEF TypeOK, IInv, Locals, Stream, TInv, Table, Logs, Placed, Held, Others
<1> QED BY <1>1, Inductive, TypeInit, TypeStep, PTL DEF Spec

-----------------------------------------------------------------------------
(* The stream coordinator-events as a queue.                               *)

(* The holders of every event, as the refinement maps them. *)
Handed == [e \in Events |-> {w \in Workers : ev[w] = e}]

LEMMA QueueInit == Init => Queue!Init
<1> SUFFICES ASSUME Init PROVE Queue!Init OBVIOUS
<1>1. \A e \in Events : e # 0 BY CoordinatorAssumption DEF CoordinatorAssumption, Events
<1>2. \A e \in Events : {w \in Workers : ev[w] = e} = {} BY <1>1 DEF Init
<1>3. Acked = {} BY DEF Init, Acked
<1> QED BY <1>2, <1>3 DEF Init, Queue!Init

(* A worker takes an event, or is done with it. *)
LEMMA HandedOver ==
  ASSUME NEW w \in Workers, NEW e \in Events, ev[w] = 0, ev' = [ev EXCEPT ![w] = e],
         ev \in [Workers -> Nat]
  PROVE  Handed' = [Handed EXCEPT ![e] = @ \cup {w}]
<1>1. \A f \in Events : f # 0 BY CoordinatorAssumption DEF CoordinatorAssumption, Events
<1>2. \A v \in Workers : ev'[v] = IF v = w THEN e ELSE ev[v] OBVIOUS
<1>3. \A f \in Events, v \in Workers : ev'[v] = f <=> ev[v] = f \/ (f = e /\ v = w)
  BY <1>1, <1>2, Zenon
<1>4. \A f \in Events : {v \in Workers : ev'[v] = f} = IF f = e THEN Handed[e] \cup {w} ELSE Handed[f]
  BY <1>3 DEF Handed
<1> QED BY <1>4 DEF Handed

LEMMA HandedBack ==
  ASSUME NEW w \in Workers, NEW e \in Events, ev[w] = e,
         \A v \in Workers : ev'[v] = IF v = w THEN 0 ELSE ev[v]
  PROVE  Handed' = [Handed EXCEPT ![e] = @ \ {w}]
<1>1. \A f \in Events : f # 0 BY CoordinatorAssumption DEF CoordinatorAssumption, Events
<1>2. \A f \in Events, v \in Workers : ev'[v] = f <=> ev[v] = f /\ v # w BY <1>1, Zenon
<1>3. \A f \in Events : {v \in Workers : ev'[v] = f} = IF f = e THEN Handed[e] \ {w} ELSE Handed[f]
  BY <1>2 DEF Handed
<1> QED BY <1>3 DEF Handed

(* Every other step leaves the stream alone; some workers may stop. *)
Stopping ==
    /\ UNCHANGED <<nEvents, cursor, pel, decided>>
    /\ \A w \in Workers : ev'[w] \in {0, ev[w]}

LEMMA DispatchStops == ASSUME NEW p \in Procs, DispatchStep(p) PROVE Stopping
BY DEF DispatchStep, Check, CreateLog, Xadd, NewRun, Return, Park, streamVars, localVars, workVars, Stopping

LEMMA RequestStops ==
  ASSUME NEW q \in Requests,
         \/ \E t \in Tasks : Comment(q, t) \/ \E s \in Told \cup {"TODO"} : Update(q, t, s)
         \/ RequestStep(q) \/ RequestFails(q)
  PROVE  Publish(q) \/ Stopping
<1> USE DEF streamVars, localVars, workVars, Stopping
<1>1. CASE \E t \in Tasks : Comment(q, t) \/ \E s \in Told \cup {"TODO"} : Update(q, t, s)
  BY <1>1 DEF Comment, Update
<1>2. CASE Write(q)
  <2>1. UNCHANGED <<nEvents, cursor, pel, decided>> /\ (UNCHANGED localVars \/ Park({q}))
    BY <1>2 DEF Write
  <2> QED BY <2>1 DEF Park
<1>3. CASE RequestFails(q) BY <1>3 DEF RequestFails, Park
<1> QED BY <1>1, <1>2, <1>3, DispatchStops, Kinds DEF RequestStep

LEMMA WorkerStops ==
  ASSUME NEW w \in Workers, WorkerStep(w) \/ Raise(w) \/ GiveUp(w)
  PROVE  Ack(w) \/ Finish(w) \/ Stopping
<1> USE DEF streamVars, localVars, workVars, Stopping
<1>1. CASE CannotLoad(w) \/ Fail(w) \/ GiveUp(w) BY <1>1 DEF CannotLoad, Fail, CloseLog, GiveUp, Park
<1>2. CASE Load(w) \/ LogRun(w) \/ LogFails(w) BY <1>2 DEF Load, LogRun, LogFails
<1>3. CASE (\E t \in Tasks : Proceed(w, t)) \/ Release(w) \/ Abort(w) BY <1>3 DEF Proceed, Release, Abort
<1>4. CASE Conclude(w) \/ Raise(w) BY <1>4 DEF Conclude, Raise
<1> QED BY <1>1, <1>2, <1>3, <1>4, DispatchStops, Kinds DEF WorkerStep

LEMMA RunnerStops ==
  ASSUME NEW n \in Runners, Down(n) \/ ReadLoopDies(n) \/ Start(n) \/ Revert(n)
  PROVE  Stopping
BY DEF Down, ReadLoopDies, Start, Revert, Park, streamVars, procVars, localVars, workVars, Stopping

LEMMA AgentStops ==
  ASSUME NEW r \in Runs, AgentStart(r) \/ \E s \in {"DONE", "BLOCKED", "TODO"} : AgentEnd(r, s)
  PROVE  Stopping
BY DEF AgentStart, AgentEnd, streamVars, procVars, localVars, workVars, Stopping

LEMMA StoppingLoses == Stopping => \E A \in SUBSET Workers : Queue!Lose(A)
<1> SUFFICES ASSUME Stopping PROVE \E A \in SUBSET Workers : Queue!Lose(A) OBVIOUS
<1>1. PICK A \in SUBSET Workers : A = {w \in Workers : ev'[w] = 0} OBVIOUS
<1>2. \A e \in Events : e # 0 BY CoordinatorAssumption DEF CoordinatorAssumption, Events
<1>3. \A e \in Events, w \in Workers : ev'[w] = e <=> ev[w] = e /\ w \notin A
  BY <1>1, <1>2, Zenon DEF Stopping
<1>4. \A e \in Events : {w \in Workers : ev'[w] = e} = {w \in Workers : ev[w] = e} \ A BY <1>3
<1>5. Acked' = Acked BY DEF Stopping, Acked
<1>6. Queue!Lose(A) BY <1>4, <1>5 DEF Queue!Lose, Stopping
<1> QED BY <1>6

LEMMA PublishAdds ==
  ASSUME NEW q \in Requests, Publish(q), TypeOK, TypeOK'
  PROVE  Queue!Add
<1>1. nEvents' = nEvents + 1 /\ UNCHANGED <<cursor, pel, decided>> BY DEF Publish
<1>2. nEvents + 1 \in Events
  <2>1. nEvents \in Nat /\ nEvents' \in 0..MaxEvents BY DEF TypeOK
  <2> QED BY <1>1, <2>1 DEF Events
<1>3. \A w \in Workers : ev'[w] = ev[w] BY Kinds DEF Publish, Park
<1>4. Handed' = Handed BY <1>3 DEF Handed
<1>5. Acked' = Acked BY <1>1 DEF Acked
<1> QED BY <1>1, <1>2, <1>4, <1>5 DEF Queue!Add, Handed

LEMMA ReadDelivers ==
  ASSUME NEW n \in Runners, Read(n), TypeOK
  PROVE  Queue!Deliver(<<n, "read">>)
<1>1. PICK w \in Workers : w = <<n, "read">> BY Kinds
<1>2. /\ pc[w] = "idle" /\ cursor < nEvents /\ cursor' = cursor + 1 /\ pel' = pel \cup {cursor + 1}
      /\ UNCHANGED <<nEvents, decided>> /\ ev' = [ev EXCEPT ![w] = cursor + 1]
  BY <1>1 DEF Read, Begin, Busy, At
<1>3. ev[w] = 0 /\ \A v \in Workers : ev[v] # cursor + 1
  <2>1. cursor \in Nat /\ ev \in [Workers -> 0..cursor] BY DEF TypeOK
  <2> QED BY <1>2, <2>1 DEF TypeOK
<1>4. PICK e \in Events : e = cursor + 1
  <2>1. cursor \in Nat /\ nEvents \in 0..MaxEvents /\ MaxEvents \in Nat
    BY CoordinatorAssumption DEF TypeOK, CoordinatorAssumption
  <2>2. cursor + 1 \in 1..MaxEvents BY <1>2, <2>1
  <2> QED BY <2>2 DEF Events
<1>5. Handed' = [Handed EXCEPT ![e] = @ \cup {w}]
  <2>1. ev \in [Workers -> Nat] BY DEF TypeOK
  <2> QED BY <1>2, <1>3, <1>4, <2>1, HandedOver
<1>6. Handed[e] = {} BY <1>3, <1>4 DEF Handed
<1>7. Handed' = [Handed EXCEPT ![e] = {w}] BY <1>5, <1>6 DEF Handed
<1>8. Acked' = Acked
  <2>1. cursor \in Nat /\ pel \subseteq 1..cursor BY DEF TypeOK
  <2>2. cursor + 1 \notin pel /\ cursor + 1 \notin 1..cursor BY <2>1
  <2>3. 1..(cursor + 1) = (1..cursor) \cup {cursor + 1} BY <2>1
  <2> QED BY <1>2, <2>2, <2>3 DEF Acked
<1> QED BY <1>1, <1>2, <1>4, <1>7, <1>8 DEF Queue!Deliver, Handed

LEMMA ClaimRedelivers ==
  ASSUME NEW n \in Runners, NEW e \in Events, Claim(n, e), TypeOK
  PROVE  Queue!Redeliver(<<n, "claim">>, e)
<1>1. PICK w \in Workers : w = <<n, "claim">> BY Kinds
<1>2. pc[w] = "idle" /\ e \in pel /\ ev' = [ev EXCEPT ![w] = e] /\ UNCHANGED streamVars
  BY <1>1 DEF Claim, Begin, Busy, At
<1>3. ev[w] = 0 /\ ev \in [Workers -> Nat] /\ e \in 1..cursor BY <1>2 DEF TypeOK
<1>4. Handed' = [Handed EXCEPT ![e] = @ \cup {w}] BY <1>2, <1>3, HandedOver
<1>5. e \notin Acked /\ Acked' = Acked BY <1>2 DEF Acked, streamVars
<1> QED BY <1>1, <1>2, <1>3, <1>4, <1>5 DEF Queue!Redeliver, Handed, streamVars

LEMMA AckCompletes ==
  ASSUME NEW w \in Workers, Ack(w), IInv, TypeOK
  PROVE  \E e \in Events : Queue!Complete(w, e)
<1>1. ev[w] \in 1..cursor /\ ev[w] \in decided
  <2>1. pc[w] = "ack" BY DEF Ack, At
  <2>2. ev[w] # 0 /\ ev[w] \in decided /\ ev[w] \in 0..cursor BY <2>1 DEF IInv, WorkersOK
  <2> QED BY <2>2
<1>2. PICK e \in Events : e = ev[w]
  <2>1. cursor \in 0..nEvents /\ nEvents \in 0..MaxEvents /\ MaxEvents \in Nat
    BY CoordinatorAssumption DEF TypeOK, CoordinatorAssumption
  <2>2. \A i \in 1..cursor : i \in 1..MaxEvents BY <2>1
  <2> QED BY <1>1, <2>2 DEF Events
<1>3. \A v \in Workers : ev'[v] = IF v = w THEN 0 ELSE ev[v] BY DEF Ack, Park
<1>4. Handed' = [Handed EXCEPT ![e] = @ \ {w}] BY <1>2, <1>3, HandedBack
<1>5. pel' = pel \ {e} /\ UNCHANGED <<nEvents, cursor, decided>> BY <1>2 DEF Ack
<1>6. Acked' = Acked \cup {e} BY <1>1, <1>2, <1>5 DEF Acked
<1>7. w \in Handed[e] BY <1>2 DEF Handed
<1>8. Queue!Complete(w, e) BY <1>1, <1>2, <1>4, <1>5, <1>6, <1>7 DEF Queue!Complete, Handed
<1> QED BY <1>8

LEMMA FinishCarriesOut ==
  ASSUME NEW w \in Workers, Finish(w), IInv, TypeOK
  PROVE  \E e \in Events : Queue!CarryOut(e)
<1>1. ev[w] \in 1..cursor
  <2>1. pc[w] = "finish" BY DEF Finish, At
  <2>2. ev[w] # 0 /\ ev[w] \in 0..cursor BY <2>1 DEF IInv, WorkersOK
  <2> QED BY <2>2
<1>2. PICK e \in Events : e = ev[w]
  <2>1. cursor \in 0..nEvents /\ nEvents \in 0..MaxEvents /\ MaxEvents \in Nat
    BY CoordinatorAssumption DEF TypeOK, CoordinatorAssumption
  <2>2. \A i \in 1..cursor : i \in 1..MaxEvents BY <2>1
  <2> QED BY <1>1, <2>2 DEF Events
<1>3. decided' = decided \cup {e} /\ UNCHANGED <<nEvents, cursor, pel, ev>>
  BY <1>2 DEF Finish, localVars, workVars
<1>4. w \in Handed[e] BY <1>2 DEF Handed
<1>5. Queue!CarryOut(e) BY <1>3, <1>4 DEF Queue!CarryOut, Handed, Acked
<1> QED BY <1>5

LEMMA QueueNext ==
  ASSUME IInv, TypeOK, TypeOK', [Next]_vars
  PROVE  [Queue!Next]_(Queue!jobVars)
<1>1. CASE Stopping BY <1>1, StoppingLoses DEF Queue!Next
<1>2. CASE UNCHANGED vars BY <1>2, <1>1 DEF vars, streamVars, procVars, localVars, workVars, Stopping
<1>3. CASE Next
  <2>1. ASSUME NEW q \in Requests, Publish(q) PROVE Queue!Next
    BY <2>1, PublishAdds DEF Queue!Next
  <2>2. ASSUME NEW w \in Workers, Ack(w) \/ Finish(w) PROVE Queue!Next
    BY <2>2, AckCompletes, FinishCarriesOut DEF Queue!Next
  <2>3. ASSUME NEW n \in Runners, Read(n) \/ \E e \in Events : Claim(n, e) PROVE Queue!Next
    BY <2>3, ReadDelivers, ClaimRedelivers, Kinds DEF Queue!Next
  <2> QED BY <1>1, <1>3, <2>1, <2>2, <2>3, RequestStops, WorkerStops, RunnerStops, AgentStops DEF Next
<1> QED BY <1>2, <1>3

(* coordinator-events, its two loops and _process_coordinator_event implement the job
   queue, though any pending event may be claimed while it is decided: an event is
   delivered in order, again only until it is acknowledged, and acknowledged by a worker
   that holds it after a run about it came to its end. *)
THEOREM Refinement == Spec => QueueSpec
<1>1. Init => Queue!Init BY QueueInit
<1>2. IInv /\ TypeOK /\ TypeOK' /\ [Next]_vars => [Queue!Next]_(Queue!jobVars) BY QueueNext
<1> QED BY <1>1, <1>2, Inductive, Types, PTL DEF Spec, QueueSpec, Queue!Spec
=============================================================================
