-------------------------- MODULE DatabaseWorkerPool --------------------------
(***************************************************************************)
(* DatabaseWorkerPoolImpl and DatabaseWorker: the pool that runs the tasks *)
(* of all databases on several threads (thread count above one).           *)
(*                                                                         *)
(* post and onWorkerIdle are synchronized: their loops over the idle       *)
(* workers run under the pool's monitor, one tryPostingTaskToWorker per    *)
(* step here, while the workers go on running what they already have.      *)
(***************************************************************************)
EXTENDS Integers, Sequences, SequencesExt

CONSTANTS
  Databases,
  Workers,
  MaxTasks,        \* bound on the tasks posted
  NoDatabase,      \* of a task that runs on no database
  NoWorker,
  PlatformThread   \* a thread that handles method calls

ASSUME PoolAssumption ==
  /\ MaxTasks \in Nat
  /\ NoDatabase \notin Databases
  /\ NoWorker \notin Workers
  /\ PlatformThread \notin Workers \cup {NoWorker}

VARIABLES
  \* DatabaseWorkerPoolImpl
  waitingList,
  idleWorkers,           \* busyWorkers are the others
  onlyEligibleWorkers,
  holder,                \* the thread in post or onWorkerIdle, or NoWorker
  toTry,                 \* the workers its loop has still to try
  \* DatabaseWorker
  handler,               \* what is posted to the worker's looper
  stage,                 \* "looping", "running" or "idling" (in onIdle)
  lastTask,              \* the running task while running
  \* the databases
  beganOn,               \* where the open transaction was begun
  posted                 \* tasks posted so far, for their ids and the bound

poolVars == <<waitingList, idleWorkers, onlyEligibleWorkers>>
monitorVars == <<holder, toTry>>
workerVars == <<handler, stage, lastTask>>
vars == <<poolVars, monitorVars, workerVars, beganOn, posted>>

-----------------------------------------------------------------------------
Task == [id : Nat, database : Databases \cup {NoDatabase}]
NoTask == [id |-> 0, database |-> NoDatabase]

Init ==
  /\ waitingList = <<>> /\ idleWorkers = Workers
  /\ onlyEligibleWorkers = [d \in Databases |-> NoWorker]
  /\ holder = NoWorker /\ toTry = {}
  /\ handler = [w \in Workers |-> <<>>]
  /\ stage = [w \in Workers |-> "looping"]
  /\ lastTask = [w \in Workers |-> NoTask]
  /\ beganOn = [d \in Databases |-> NoWorker]
  /\ posted = 0

isInTransaction(task) ==
  task.database # NoDatabase /\ beganOn[task.database] # NoWorker

-----------------------------------------------------------------------------
(* Fault injected: the new task is only listed. *)
PostUntried(t, d) ==
  /\ holder = NoWorker /\ posted < MaxTasks
  /\ posted' = posted + 1
  /\ waitingList' = Append(waitingList, [id |-> posted + 1, database |-> d])
  /\ holder' = t /\ toTry' = {}
  /\ UNCHANGED <<idleWorkers, onlyEligibleWorkers, workerVars, beganOn>>

(* post, entered by thread t. *)
Post(t, d) ==
  /\ holder = NoWorker /\ posted < MaxTasks
  /\ posted' = posted + 1
  /\ waitingList' = Append(waitingList, [id |-> posted + 1, database |-> d])
  /\ holder' = t /\ toTry' = idleWorkers
  /\ UNCHANGED <<idleWorkers, onlyEligibleWorkers, workerVars, beganOn>>

(* A method call, or the close or delete of a database. *)
PlatformPost ==
  \E d \in Databases \cup {NoDatabase} : Post(PlatformThread, d)

(* A task posts another one of its own database (runQueuedOperations). *)
WorkerPost(w) ==
  /\ stage[w] = "running" /\ lastTask[w].database # NoDatabase
  /\ Post(w, lastTask[w].database)

Eligible(w, task) ==
  task.database # NoDatabase =>
    onlyEligibleWorkers[task.database] \in {w, NoWorker}

(* findTaskForWorker: the place of the first task w may run. *)
IsFoundFor(w, i) ==
  /\ Eligible(w, waitingList[i])
  /\ \A j \in 1..(i - 1) : ~Eligible(w, waitingList[j])

(* Fault injected: the worker is not made the only eligible one. *)
HandOverUnpinned(w, i) ==
  /\ waitingList' = RemoveAt(waitingList, i)
  /\ idleWorkers' = idleWorkers \ {w}
  /\ handler' = [handler EXCEPT ![w] = Append(@, waitingList[i])]
  /\ UNCHANGED onlyEligibleWorkers

(* Fault injected: a task of no database is recorded too. *)
HandOverPinNull(w, i) ==
  /\ waitingList' = RemoveAt(waitingList, i)
  /\ idleWorkers' = idleWorkers \ {w}
  /\ handler' = [handler EXCEPT ![w] = Append(@, waitingList[i])]
  /\ onlyEligibleWorkers' =
       [d \in DOMAIN onlyEligibleWorkers \cup {waitingList[i].database} |->
          IF d = waitingList[i].database THEN w ELSE onlyEligibleWorkers[d]]

(* Worker w becomes busy, the only eligible one for the task's database,   *)
(* and gets the task.                                                      *)
HandOver(w, i) ==
  /\ waitingList' = RemoveAt(waitingList, i)
  /\ idleWorkers' = idleWorkers \ {w}
  /\ handler' = [handler EXCEPT ![w] = Append(@, waitingList[i])]
  /\ onlyEligibleWorkers' =
       [d \in Databases |-> IF d = waitingList[i].database
                              THEN w ELSE onlyEligibleWorkers[d]]

(* One tryPostingTaskToWorker of the loop; onWorkerIdle begins with the    *)
(* worker that became idle, the order of the others is a HashSet's.        *)
TryPostingTaskToWorker(w) ==
  /\ w \in toTry /\ (holder \in toTry => w = holder)
  /\ toTry' = toTry \ {w}
  /\ \/ \E i \in DOMAIN waitingList : IsFoundFor(w, i) /\ HandOver(w, i)
     \/ /\ \A i \in DOMAIN waitingList : ~Eligible(w, waitingList[i])
        /\ UNCHANGED <<poolVars, handler>>
  /\ UNCHANGED <<holder, stage, lastTask, beganOn, posted>>

(* The end of the synchronized method. *)
LeaveMonitor ==
  /\ holder # NoWorker /\ toTry = {}
  /\ holder' = NoWorker
  /\ stage' = [w \in Workers |->
                 IF w = holder /\ stage[w] = "idling" THEN "looping"
                                                      ELSE stage[w]]
  /\ UNCHANGED <<poolVars, toTry, handler, lastTask, beganOn, posted>>

-----------------------------------------------------------------------------
(* work: the runnable of the next task begins. *)
Start(w) ==
  /\ stage[w] = "looping" /\ handler[w] # <<>>
  /\ stage' = [stage EXCEPT ![w] = "running"]
  /\ lastTask' = [lastTask EXCEPT ![w] = Head(handler[w])]
  /\ handler' = [handler EXCEPT ![w] = Tail(@)]
  /\ UNCHANGED <<poolVars, monitorVars, beganOn, posted>>

(* The runnable returns, having begun or ended a transaction or neither.   *)
Finish(w) ==
  /\ stage[w] = "running" /\ holder # w
  /\ stage' = [stage EXCEPT ![w] = "idling"]
  /\ \/ UNCHANGED beganOn
     \/ /\ lastTask[w].database # NoDatabase
        /\ beganOn' = [beganOn EXCEPT ![lastTask[w].database] =
                         IF @ = NoWorker THEN w ELSE NoWorker]
  /\ UNCHANGED <<poolVars, monitorVars, handler, lastTask, posted>>

(* Fault injected: the transaction exception is forgotten. *)
OnWorkerIdleAlwaysFree(w) ==
  /\ stage[w] = "idling" /\ holder = NoWorker
  /\ holder' = w /\ toTry' = idleWorkers \cup {w}
  /\ idleWorkers' = idleWorkers \cup {w}
  /\ onlyEligibleWorkers' =
       [d \in Databases |-> IF d = lastTask[w].database
                              THEN NoWorker ELSE onlyEligibleWorkers[d]]
  /\ UNCHANGED <<waitingList, workerVars, beganOn, posted>>

(* Fault injected: only the worker itself is tried again. *)
OnWorkerIdleAlone(w) ==
  /\ stage[w] = "idling" /\ holder = NoWorker
  /\ holder' = w /\ toTry' = {w}
  /\ idleWorkers' = idleWorkers \cup {w}
  /\ onlyEligibleWorkers' =
       [d \in Databases |->
          IF d = lastTask[w].database /\ ~isInTransaction(lastTask[w])
            THEN NoWorker ELSE onlyEligibleWorkers[d]]
  /\ UNCHANGED <<waitingList, workerVars, beganOn, posted>>

(* onWorkerIdle, entered by the worker's own thread. *)
OnWorkerIdle(w) ==
  /\ stage[w] = "idling" /\ holder = NoWorker
  /\ holder' = w /\ toTry' = idleWorkers \cup {w}
  /\ idleWorkers' = idleWorkers \cup {w}
  /\ onlyEligibleWorkers' =
       [d \in Databases |->
          IF d = lastTask[w].database /\ ~isInTransaction(lastTask[w])
            THEN NoWorker ELSE onlyEligibleWorkers[d]]
  /\ UNCHANGED <<waitingList, workerVars, beganOn, posted>>

-----------------------------------------------------------------------------
Monitor == LeaveMonitor \/ \E w \in Workers : TryPostingTaskToWorker(w)

Work(w) == Start(w) \/ Finish(w) \/ OnWorkerIdle(w)

Next == \/ PlatformPost \/ Monitor
        \/ \E w \in Workers : WorkerPost(w) \/ Work(w)

Spec == Init /\ [][Next]_vars

(* A thread in the monitor leaves it; a worker's thread runs, its task     *)
(* returns, and it gets the monitor if that stays free.                    *)
Fairness == /\ WF_vars(Monitor)
            /\ \A w \in Workers : WF_vars(Work(w))

FairSpec == Spec /\ Fairness
-----------------------------------------------------------------------------
(* Types of the variables. *)
TypeOK ==
  /\ waitingList \in Seq(Task)
  /\ idleWorkers \subseteq Workers
  /\ onlyEligibleWorkers \in [Databases -> Workers \cup {NoWorker}]
  /\ holder \in Workers \cup {NoWorker, PlatformThread}
  /\ toTry \subseteq Workers
  /\ handler \in [Workers -> Seq(Task)]
  /\ stage \in [Workers -> {"looping", "running", "idling"}]
  /\ lastTask \in [Workers -> Task]
  /\ beganOn \in [Databases -> Workers \cup {NoWorker}]
  /\ posted \in Nat

(* What worker w has been given and has not finished. *)
HasTaskOf(w, d) ==
  \/ \E i \in DOMAIN handler[w] : handler[w][i].database = d
  \/ stage[w] = "running" /\ lastTask[w].database = d

(* Two workers never have tasks of the same database in hand, so its tasks *)
(* cannot overlap or overtake each other between two threads.              *)
OneWorkerPerDatabase ==
  \A d \in Databases, v, w \in Workers :
    HasTaskOf(v, d) /\ HasTaskOf(w, d) => v = w

(* An open transaction keeps its database on the thread that began it.     *)
TransactionKeepsWorker ==
  \A d \in Databases :
    beganOn[d] # NoWorker => onlyEligibleWorkers[d] = beganOn[d]

(* No worker is idle, once the monitor is free, while a task it may run    *)
(* waits: every change of eligibility is followed by enough tries.         *)
NoIdleWorkerLeft ==
  holder = NoWorker =>
    \A w \in idleWorkers, i \in DOMAIN waitingList :
      ~Eligible(w, waitingList[i])

(* The pool obeys the rules stated for post.                               *)
IdsOf(s, d) == {s[i].id : i \in {j \in DOMAIN s : s[j].database = d}}
QueueOf(d) ==
  IdsOf(waitingList, d) \cup UNION {IdsOf(handler[w], d) : w \in Workers}
RunnersOf(d) ==
  {w \in Workers : stage[w] = "running" /\ lastTask[w].database = d}

Queues == INSTANCE DatabaseTaskQueues
            WITH Threads <- Workers, NoThread <- NoWorker,
                 queue <- [d \in Databases |-> QueueOf(d)],
                 runners <- [d \in Databases |-> RunnersOf(d)],
                 transaction <- beganOn
ImplementsDatabaseTaskQueues == Queues!Spec

(* Every task posted is run, whatever worker its database is bound to.     *)
Unstarted(id) ==
  \/ \E i \in DOMAIN waitingList : waitingList[i].id = id
  \/ \E w \in Workers : \E i \in DOMAIN handler[w] : handler[w][i].id = id
EveryTaskRuns == \A id \in 1..MaxTasks : Unstarted(id) ~> ~Unstarted(id)
=============================================================================
