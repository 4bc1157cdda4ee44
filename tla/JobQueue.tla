------------------------------ MODULE JobQueue ------------------------------
(***************************************************************************)
(* What the consumer group of a stream promises about its jobs, without a  *)
(* word on how a job is executed: a job is delivered in order the first    *)
(* time, again only until it is done, stays in the queue when its workers  *)
(* lose it, and is done only after one of its workers has carried it out.  *)
(* An exclusive queue delivers no job that is in somebody's hands.         *)
(***************************************************************************)
EXTENDS Integers

CONSTANTS Jobs,     \* 1..n, in the order they are added
          Agents,   \* whoever may hold a job
          Exclusive \* is every job shorter than the time after which it is claimed?

VARIABLES added, delivered,
          holders,  \* for every job, the agents working on it
          carried,  \* jobs some agent has carried out
          done      \* jobs that will never be handed out again

jobVars == <<added, delivered, holders, carried, done>>

Init ==
    /\ added = 0 /\ delivered = 0
    /\ holders = [j \in Jobs |-> {}]
    /\ carried = {} /\ done = {}

Add ==
    /\ added + 1 \in Jobs
    /\ added' = added + 1
    /\ UNCHANGED <<delivered, holders, carried, done>>

Deliver(a) ==
    /\ delivered < added
    /\ delivered' = delivered + 1
    /\ holders' = [holders EXCEPT ![delivered + 1] = {a}]
    /\ UNCHANGED <<added, carried, done>>

Redeliver(a, j) ==
    /\ j \in 1..delivered /\ j \notin done
    /\ Exclusive => holders[j] = {}
    /\ holders' = [holders EXCEPT ![j] = @ \cup {a}]
    /\ UNCHANGED <<added, delivered, carried, done>>

CarryOut(j) ==
    /\ holders[j] # {}
    /\ carried' = carried \cup {j}
    /\ UNCHANGED <<added, delivered, holders, done>>

(* Some agents lose what they hold: an exception, a crash, a shutdown. *)
Lose(A) ==
    /\ holders' = [j \in Jobs |-> holders[j] \ A]
    /\ UNCHANGED <<added, delivered, carried, done>>

(* The others that hold it, if any, go on. *)
Complete(a, j) ==
    /\ j \in carried /\ a \in holders[j]
    /\ done' = done \cup {j}
    /\ holders' = [holders EXCEPT ![j] = @ \ {a}]
    /\ UNCHANGED <<added, delivered, carried>>

Next ==
    \/ Add
    \/ \E a \in Agents : Deliver(a)
    \/ \E a \in Agents, j \in Jobs : Redeliver(a, j) \/ Complete(a, j)
    \/ \E j \in Jobs : CarryOut(j)
    \/ \E A \in SUBSET Agents : Lose(A)

Spec == Init /\ [][Next]_jobVars
==============================================================================
