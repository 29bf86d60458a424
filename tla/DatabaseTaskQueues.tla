-------------------------- MODULE DatabaseTaskQueues --------------------------
(***************************************************************************)
(* The rules of DatabaseWorkerPool.post, as an abstract scheduler: the     *)
(* tasks of one database run in the order they were posted, no two of them *)
(* at the same time, and while a transaction is open on a database its     *)
(* tasks run on the thread that opened it.  Tasks of different databases,  *)
(* and those of none, are independent.                                     *)
(***************************************************************************)
EXTENDS Naturals

CONSTANTS Databases, Threads, NoThread

VARIABLES
  posted,       \* tasks posted so far; they are numbered in that order
  queue,        \* per database, the tasks posted and not started
  runners,      \* per database, the threads running one of its tasks
  transaction   \* per database, the thread its transaction was begun on

vars == <<posted, queue, runners, transaction>>

Init ==
  /\ posted = 0
  /\ queue = [d \in Databases |-> {}]
  /\ runners = [d \in Databases |-> {}]
  /\ transaction = [d \in Databases |-> NoThread]

Post(d) ==
  /\ posted' = posted + 1
  /\ queue' = [queue EXCEPT ![d] = @ \cup {posted + 1}]
  /\ UNCHANGED <<runners, transaction>>

PostOfNone == posted' = posted + 1 /\ UNCHANGED <<queue, runners, transaction>>

First(d, task) == task \in queue[d] /\ \A other \in queue[d] : task <= other

Start(d, t) ==
  /\ runners[d] = {}
  /\ transaction[d] \in {t, NoThread}
  /\ \E task \in queue[d] :
       First(d, task) /\ queue' = [queue EXCEPT ![d] = @ \ {task}]
  /\ runners' = [runners EXCEPT ![d] = {t}]
  /\ UNCHANGED <<posted, transaction>>

Finish(d, t) ==
  /\ runners[d] = {t}
  /\ runners' = [runners EXCEPT ![d] = {}]
  /\ \E after \in {t, NoThread} :
       transaction' = [transaction EXCEPT ![d] = after]
  /\ UNCHANGED <<posted, queue>>

Next ==
  \/ PostOfNone
  \/ \E d \in Databases :
       Post(d) \/ \E t \in Threads : Start(d, t) \/ Finish(d, t)

Spec == Init /\ [][Next]_vars
=============================================================================
