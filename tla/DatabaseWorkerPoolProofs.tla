----------------------- MODULE DatabaseWorkerPoolProofs -----------------------
(* Theorems about DatabaseWorkerPool, for any databases and workers and    *)
(* any number of tasks.                                                    *)
EXTENDS DatabaseWorkerPool, SequenceTheorems, TLAPS

(* Removing an element leaves a sequence. *)
LEMMA RemoveAtTyped ==
  ASSUME NEW S, NEW s \in Seq(S), NEW i \in DOMAIN s
  PROVE  RemoveAt(s, i) \in Seq(S)
<1>1. i \in 1..Len(s) /\ Len(s) \in Nat
  BY LenProperties
<1>2. SubSeq(s, 1, i - 1) \in Seq(S) /\ SubSeq(s, i + 1, Len(s)) \in Seq(S)
  BY <1>1, SubSeqProperties
<1>. QED
  BY <1>2, ConcatProperties DEF RemoveAt

(* It leaves the other elements, in their order. *)
LEMMA RemoveAtElements ==
  ASSUME NEW S, NEW s \in Seq(S), NEW i \in DOMAIN s
  PROVE  /\ DOMAIN RemoveAt(s, i) = 1..(Len(s) - 1)
         /\ \A j \in 1..(Len(s) - 1) :
              RemoveAt(s, i)[j] = IF j < i THEN s[j] ELSE s[j + 1]
<1>. DEFINE s1 == SubSeq(s, 1, i - 1)
            s2 == SubSeq(s, i + 1, Len(s))
<1>1. i \in 1..Len(s) /\ Len(s) \in Nat /\ \A j \in 1..Len(s) : s[j] \in S
  BY LenProperties, ElementOfSeq
<1>2. /\ s1 \in Seq(S) /\ Len(s1) = i - 1
      /\ \A j \in 1..(i - 1) : s1[j] = s[j]
  <2>1. \A j \in 1..(i - 1) : s[j] \in S
    BY <1>1
  <2>2. /\ s1 \in Seq(S)
        /\ Len(s1) = IF 1 <= i - 1 THEN (i - 1) - 1 + 1 ELSE 0
        /\ \A j \in 1..((i - 1) - 1 + 1) : s1[j] = s[1 + j - 1]
    BY <1>1, <2>1, SubSeqProperties
  <2>. QED
    BY <1>1, <2>2
<1>3. /\ s2 \in Seq(S) /\ Len(s2) = Len(s) - i
      /\ \A j \in 1..(Len(s) - i) : s2[j] = s[i + j]
  <2>1. \A j \in (i + 1)..Len(s) : s[j] \in S
    BY <1>1
  <2>2. /\ s2 \in Seq(S)
        /\ Len(s2) = IF i + 1 <= Len(s) THEN Len(s) - (i + 1) + 1 ELSE 0
        /\ \A j \in 1..(Len(s) - (i + 1) + 1) : s2[j] = s[(i + 1) + j - 1]
    BY <1>1, <2>1, SubSeqProperties
  <2>. QED
    BY <1>1, <2>2
<1>. HIDE DEF s1, s2
<1>4. /\ s1 \o s2 \in Seq(S) /\ Len(s1 \o s2) = Len(s1) + Len(s2)
      /\ \A j \in 1..(Len(s1) + Len(s2)) :
           (s1 \o s2)[j] = IF j <= Len(s1) THEN s1[j] ELSE s2[j - Len(s1)]
  BY <1>2, <1>3, ConcatProperties
<1>5. RemoveAt(s, i) = s1 \o s2
  BY DEF RemoveAt, s1, s2
<1>6. ASSUME NEW j \in 1..(Len(s) - 1)
      PROVE  (s1 \o s2)[j] = IF j < i THEN s[j] ELSE s[j + 1]
  <2>1. /\ Len(s1) + Len(s2) = Len(s) - 1 /\ j \in 1..(Len(s1) + Len(s2))
        /\ i \in Int /\ j \in Int
    BY <1>1, <1>2, <1>3
  <2>2. (s1 \o s2)[j] = IF j <= i - 1 THEN s1[j] ELSE s2[j - (i - 1)]
    BY <1>2, <1>4, <2>1
  <2>3. CASE j < i
    <3>1. j <= i - 1 /\ j \in 1..(i - 1)
      BY <1>1, <2>3
    <3>. QED
      BY <1>2, <2>2, <2>3, <3>1
  <2>4. CASE ~(j < i)
    <3>1. /\ ~(j <= i - 1) /\ j - (i - 1) \in 1..(Len(s) - i)
          /\ i + (j - (i - 1)) = j + 1
      BY <1>1, <2>1, <2>4
    <3>2. (s1 \o s2)[j] = s2[j - (i - 1)]
      BY <2>2, <3>1
    <3>3. s2[j - (i - 1)] = s[i + (j - (i - 1))]
      BY <1>3, <3>1
    <3>. QED
      BY <2>4, <3>1, <3>2, <3>3
  <2>. QED
    BY <2>3, <2>4
<1>7. DOMAIN (s1 \o s2) = 1..(Len(s) - 1)
  <2>1. Len(s1) + Len(s2) = Len(s) - 1
    BY <1>1, <1>2, <1>3
  <2>. QED
    BY <1>4, <2>1, LenProperties
<1>. QED
  BY <1>5, <1>6, <1>7

(* Queues of at most one element. *)
LEMMA AppendToEmpty ==
  ASSUME NEW S, NEW e \in S
  PROVE  Append(<<>>, e) = <<e>> /\ <<e>> \in Seq(S)
OBVIOUS

(* A queue of at most one element that is not empty is its head alone.     *)
LEMMA Singleton ==
  ASSUME NEW S, NEW e \in S
  PROVE  /\ Head(<<e>>) = e /\ Tail(<<e>>) = <<>> /\ <<e>> # <<>>
         /\ DOMAIN <<e>> = {1} /\ <<e>>[1] = e /\ Len(<<e>>) = 1
OBVIOUS

-----------------------------------------------------------------------------
(* The initial state of the pool has the types. *)
LEMMA InitTyped == Init => TypeOK
<1>. SUFFICES ASSUME Init PROVE TypeOK
  OBVIOUS
<1>1. waitingList \in Seq(Task) /\ handler \in [Workers -> Seq(Task)]
  BY EmptySeq DEF Init
<1>2. lastTask \in [Workers -> Task]
  BY DEF Init, Task, NoTask
<1>. QED
  BY <1>1, <1>2 DEF Init, TypeOK

(* post keeps the types.                                                   *)
LEMMA PostTyped ==
  ASSUME TypeOK, NEW t \in Workers \cup {PlatformThread},
         NEW d \in Databases \cup {NoDatabase}, Post(t, d)
  PROVE  TypeOK'
<1>1. [id |-> posted + 1, database |-> d] \in Task
  BY DEF Task, TypeOK
<1>2. waitingList' \in Seq(Task)
  BY <1>1, AppendProperties DEF Post, TypeOK
<1>. QED
  BY <1>2 DEF Post, TypeOK, workerVars

(* Handing a task over keeps the types of the pool.                        *)
LEMMA HandOverTyped ==
  ASSUME TypeOK, NEW w \in Workers, NEW i \in DOMAIN waitingList, HandOver(w, i)
  PROVE  /\ waitingList[i] \in Task
         /\ waitingList' \in Seq(Task)
         /\ idleWorkers' \subseteq Workers
         /\ onlyEligibleWorkers' \in [Databases -> Workers \cup {NoWorker}]
         /\ handler' \in [Workers -> Seq(Task)]
<1>1. waitingList \in Seq(Task)
  BY DEF TypeOK
<1>2. waitingList[i] \in Task
  BY <1>1, ElementOfSeq, LenProperties
<1>3. waitingList' \in Seq(Task)
  BY <1>1, RemoveAtTyped DEF HandOver
<1>4. Append(handler[w], waitingList[i]) \in Seq(Task)
  BY <1>2, AppendProperties DEF TypeOK
<1>5. handler' \in [Workers -> Seq(Task)]
  BY <1>4 DEF HandOver, TypeOK
<1>6. /\ idleWorkers' \subseteq Workers
      /\ onlyEligibleWorkers' \in [Databases -> Workers \cup {NoWorker}]
  BY DEF HandOver, TypeOK
<1>. QED
  BY <1>2, <1>3, <1>5, <1>6

(* Every step of the pool keeps the types.                                 *)
LEMMA NextTyped == TypeOK /\ [Next]_vars => TypeOK'
<1>. SUFFICES ASSUME TypeOK, [Next]_vars PROVE TypeOK'
  OBVIOUS
<1>1. CASE PlatformPost
  BY <1>1, PostTyped DEF PlatformPost
<1>2. ASSUME NEW w \in Workers, WorkerPost(w) PROVE TypeOK'
  <2>1. lastTask[w].database \in Databases \cup {NoDatabase}
    BY DEF TypeOK, Task
  <2>. QED
    BY <1>2, <2>1, PostTyped DEF WorkerPost
<1>3. ASSUME NEW w \in Workers, TryPostingTaskToWorker(w) PROVE TypeOK'
  <2>1. /\ toTry' \subseteq Workers
        /\ UNCHANGED <<holder, stage, lastTask, beganOn, posted>>
    BY <1>3 DEF TryPostingTaskToWorker, TypeOK
  <2>2. \/ \E i \in DOMAIN waitingList : HandOver(w, i)
        \/ UNCHANGED <<poolVars, handler>>
    BY <1>3 DEF TryPostingTaskToWorker
  <2>3. CASE UNCHANGED <<poolVars, handler>>
    BY <2>1, <2>3 DEF poolVars, TypeOK
  <2>4. CASE \E i \in DOMAIN waitingList : HandOver(w, i)
    <3>1. PICK i \in DOMAIN waitingList : HandOver(w, i)
      BY <2>4
    <3>2. /\ waitingList' \in Seq(Task)
          /\ idleWorkers' \subseteq Workers
          /\ onlyEligibleWorkers' \in [Databases -> Workers \cup {NoWorker}]
          /\ handler' \in [Workers -> Seq(Task)]
      BY <3>1, HandOverTyped
    <3>. QED
      BY <2>1, <3>2 DEF TypeOK
  <2>. QED
    BY <2>2, <2>3, <2>4
<1>4. CASE LeaveMonitor
  BY <1>4 DEF LeaveMonitor, TypeOK, poolVars
<1>5. ASSUME NEW w \in Workers, Start(w) PROVE TypeOK'
  <2>1. Head(handler[w]) \in Task /\ Tail(handler[w]) \in Seq(Task)
    BY <1>5, HeadTailProperties DEF Start, TypeOK
  <2>. QED
    BY <1>5, <2>1 DEF Start, TypeOK, poolVars, monitorVars
<1>6. ASSUME NEW w \in Workers, Finish(w) PROVE TypeOK'
  BY <1>6 DEF Finish, TypeOK, poolVars, monitorVars
<1>7. ASSUME NEW w \in Workers, OnWorkerIdle(w) PROVE TypeOK'
  BY <1>7 DEF OnWorkerIdle, TypeOK, workerVars
<1>8. CASE UNCHANGED vars
  BY <1>8 DEF vars, TypeOK, poolVars, monitorVars, workerVars
<1>. QED
  BY <1>1, <1>2, <1>3, <1>4, <1>5, <1>6, <1>7, <1>8 DEF Next, Monitor, Work

(* The variables of the pool keep their types. *)
THEOREM PoolTypeCorrect == Spec => []TypeOK
BY InitTyped, NextTyped, PTL DEF Spec
-----------------------------------------------------------------------------
(* The invariant that carries the safety of the pool.  A worker is in one  *)
(* of three situations: idle, with a task posted to its looper, or running *)
(* (and on its way to the monitor after that).  A task in its hands binds  *)
(* the task's database to it.                                              *)
InMonitor(w) == stage[w] = "looping" \/ (stage[w] = "idling" /\ holder = w)

Idle(w)    == w \in idleWorkers /\ handler[w] = <<>> /\ InMonitor(w)
Given(w)   == /\ w \notin idleWorkers /\ InMonitor(w)
              /\ \E task \in Task : handler[w] = <<task>>
Working(w) == w \notin idleWorkers /\ handler[w] = <<>> /\ ~InMonitor(w)

BoundTo(w, task) == task.database # NoDatabase =>
                      onlyEligibleWorkers[task.database] = w

Occupation == \A w \in Workers : Idle(w) \/ Given(w) \/ Working(w)

Binding ==
  \A w \in Workers :
    /\ \A task \in Task : handler[w] = <<task>> => BoundTo(w, task)
    /\ Working(w) => BoundTo(w, lastTask[w])

MonitorSafe ==
  /\ toTry \subseteq idleWorkers
  /\ holder = NoWorker => toTry = {}
  /\ holder \in Workers => stage[holder] \in {"running", "idling"}

PoolInvariant ==
  Occupation /\ Binding /\ MonitorSafe /\ TransactionKeepsWorker

(* The invariant holds in the initial state, where nothing is bound.       *)
LEMMA InitInvariant == Init => PoolInvariant
<1>. SUFFICES ASSUME Init PROVE PoolInvariant
  OBVIOUS
<1>1. Occupation
  BY DEF Init, Occupation, Idle, InMonitor
<1>2. Binding
  <2>1. \A task \in Task : <<>> # <<task>>
    OBVIOUS
  <2>. QED
    BY <2>1 DEF Init, Binding, Working
<1>3. MonitorSafe /\ TransactionKeepsWorker
  BY PoolAssumption DEF Init, MonitorSafe, TransactionKeepsWorker
<1>. QED
  BY <1>1, <1>2, <1>3 DEF PoolInvariant

(* Entering the monitor to post changes nothing but holder and toTry: the  *)
(* thread that enters is not a worker's, or is running a task.             *)
LEMMA PostInvariant ==
  ASSUME TypeOK, PoolInvariant,
         NEW t \in Workers \cup {PlatformThread},
         t \in Workers => stage[t] = "running",
         NEW d \in Databases \cup {NoDatabase}, Post(t, d)
  PROVE  PoolInvariant'
<1>1. ASSUME NEW w \in Workers
      PROVE  /\ InMonitor(w)' <=> InMonitor(w)
             /\ Idle(w)' <=> Idle(w)
             /\ Given(w)' <=> Given(w)
             /\ Working(w)' <=> Working(w)
  <2>1. InMonitor(w)' <=> InMonitor(w)
    BY PoolAssumption DEF Post, InMonitor, workerVars
  <2>. QED
    BY <2>1 DEF Post, Idle, Given, Working, workerVars
<1>2. Occupation'
  BY <1>1 DEF Occupation, PoolInvariant
<1>3. Binding'
  BY <1>1 DEF Binding, PoolInvariant, Post, BoundTo, workerVars
<1>4. MonitorSafe'
  BY PoolAssumption DEF MonitorSafe, PoolInvariant, Post, workerVars
<1>5. TransactionKeepsWorker'
  BY DEF TransactionKeepsWorker, PoolInvariant, Post
<1>. QED
  BY <1>2, <1>3, <1>4, <1>5 DEF PoolInvariant

(* A task handed over goes to an idle worker and binds its database to it. *)
LEMMA HandOverInvariant ==
  ASSUME TypeOK, PoolInvariant, NEW w \in Workers, NEW i \in DOMAIN waitingList,
         w \in toTry, toTry' = toTry \ {w}, Eligible(w, waitingList[i]),
         HandOver(w, i), UNCHANGED <<holder, stage, lastTask, beganOn, posted>>
  PROVE  PoolInvariant'
<1>. PICK task \in Task : task = waitingList[i]
  BY HandOverTyped
<1>0. /\ Idle(w)
      /\ onlyEligibleWorkers \in [Databases -> Workers \cup {NoWorker}]
      /\ handler \in [Workers -> Seq(Task)]
  BY DEF TypeOK, PoolInvariant, Occupation, MonitorSafe, Given, Working
<1>1. handler' = [handler EXCEPT ![w] = <<task>>]
  BY <1>0, AppendToEmpty DEF HandOver, Idle
<1>2. \A v \in Workers : InMonitor(v)' <=> InMonitor(v)
  BY DEF InMonitor
<1>3. Given(w)'
  BY <1>0, <1>1, <1>2 DEF Given, Idle, HandOver
<1>4. ASSUME NEW v \in Workers, v # w
      PROVE  /\ Idle(v)' <=> Idle(v)
             /\ Given(v)' <=> Given(v)
             /\ Working(v)' <=> Working(v)
             /\ handler'[v] = handler[v]
  BY <1>0, <1>1, <1>2, <1>4 DEF Idle, Given, Working, HandOver
<1>5. Occupation'
  BY <1>3, <1>4 DEF Occupation, PoolInvariant
<1>6. BoundTo(w, task)'
  BY <1>0 DEF BoundTo, HandOver, Task
<1>7. ASSUME NEW v \in Workers, v # w, NEW t \in Task, BoundTo(v, t)
      PROVE  BoundTo(v, t)'
  <2>1. Eligible(w, task)
    OBVIOUS
  <2>. QED
    BY <1>0, <1>7, <2>1, PoolAssumption
       DEF BoundTo, HandOver, Eligible, Task
<1>8. Binding'
  <2>1. ASSUME NEW v \in Workers, v # w
        PROVE  /\ \A t \in Task : handler'[v] = <<t>> => BoundTo(v, t)'
               /\ Working(v)' => BoundTo(v, lastTask[v])'
    <3>1. lastTask[v] \in Task
      BY DEF TypeOK
    <3>. QED
      BY <1>4, <1>7, <2>1, <3>1 DEF Binding, PoolInvariant, BoundTo
  <2>2. \A t \in Task : handler'[w] = <<t>> => BoundTo(w, t)'
    <3>1. handler'[w] = <<task>>
      BY <1>0, <1>1
    <3>. SUFFICES ASSUME NEW t \in Task, handler'[w] = <<t>>
                  PROVE  BoundTo(w, t)'
      OBVIOUS
    <3>2. t = task
      BY <3>1
    <3>. QED
      BY <1>6, <3>2
  <2>3. ~Working(w)'
    BY <1>3 DEF Given, Working
  <2>. QED
    BY <2>1, <2>2, <2>3 DEF Binding
<1>9. MonitorSafe'
  BY DEF MonitorSafe, PoolInvariant, HandOver
<1>10. TransactionKeepsWorker'
  <2>. SUFFICES ASSUME NEW d \in Databases, beganOn[d] # NoWorker
                PROVE  onlyEligibleWorkers'[d] = beganOn[d]
    BY DEF TransactionKeepsWorker
  <2>1. onlyEligibleWorkers[d] = beganOn[d]
    BY DEF PoolInvariant, TransactionKeepsWorker
  <2>2. Eligible(w, task)
    OBVIOUS
  <2>. QED
    BY <1>0, <2>1, <2>2, PoolAssumption DEF HandOver, Eligible
<1>. QED
  BY <1>5, <1>8, <1>9, <1>10 DEF PoolInvariant

(* Leaving the monitor gives the thread of an idling worker back to its    *)
(* looper.                                                                 *)
LEMMA LeaveInvariant ==
  ASSUME TypeOK, PoolInvariant, LeaveMonitor
  PROVE  PoolInvariant'
<1>1. ASSUME NEW w \in Workers
      PROVE  /\ InMonitor(w)' <=> InMonitor(w)
             /\ Idle(w)' <=> Idle(w)
             /\ Given(w)' <=> Given(w)
             /\ Working(w)' <=> Working(w)
  <2>1. InMonitor(w)' <=> InMonitor(w)
    BY PoolAssumption DEF LeaveMonitor, InMonitor, TypeOK
  <2>. QED
    BY <2>1 DEF LeaveMonitor, Idle, Given, Working, poolVars
<1>2. Occupation'
  BY <1>1 DEF Occupation, PoolInvariant
<1>3. Binding'
  BY <1>1 DEF Binding, PoolInvariant, LeaveMonitor, BoundTo, poolVars
<1>4. MonitorSafe'
  BY PoolAssumption DEF MonitorSafe, PoolInvariant, LeaveMonitor, poolVars
<1>5. TransactionKeepsWorker'
  BY DEF TransactionKeepsWorker, PoolInvariant, LeaveMonitor, poolVars
<1>. QED
  BY <1>2, <1>3, <1>4, <1>5 DEF PoolInvariant

(* A worker begins the task it was given, which stays bound to it.         *)
LEMMA StartInvariant ==
  ASSUME TypeOK, PoolInvariant, NEW w \in Workers, Start(w)
  PROVE  PoolInvariant'
<1>1. Given(w)
  BY DEF PoolInvariant, Occupation, Idle, Working, Start
<1>2. PICK task \in Task : handler[w] = <<task>>
  BY <1>1 DEF Given
<1>3. /\ handler' = [handler EXCEPT ![w] = <<>>]
      /\ lastTask' = [lastTask EXCEPT ![w] = task]
  BY <1>2, Singleton DEF Start
<1>4. Working(w)'
  BY <1>1, <1>3 DEF Given, Working, Start, InMonitor, TypeOK, poolVars
<1>5. ASSUME NEW v \in Workers, v # w
      PROVE  /\ Idle(v)' <=> Idle(v)
             /\ Given(v)' <=> Given(v)
             /\ Working(v)' <=> Working(v)
             /\ handler'[v] = handler[v] /\ lastTask'[v] = lastTask[v]
  BY <1>3, <1>5 DEF Idle, Given, Working, InMonitor, Start, TypeOK, poolVars,
     monitorVars
<1>6. Occupation'
  BY <1>4, <1>5 DEF Occupation, PoolInvariant
<1>7. Binding'
  <2>1. ASSUME NEW v \in Workers, v # w
        PROVE  /\ \A t \in Task : handler'[v] = <<t>> => BoundTo(v, t)'
               /\ Working(v)' => BoundTo(v, lastTask[v])'
    BY <1>5, <2>1 DEF Binding, PoolInvariant, BoundTo, Start, poolVars
  <2>2. handler'[w] = <<>> /\ lastTask'[w] = task
    BY <1>3 DEF TypeOK
  <2>3. \A t \in Task : handler'[w] # <<t>>
    BY <2>2
  <2>4. BoundTo(w, task)
    BY <1>2 DEF Binding, PoolInvariant
  <2>5. BoundTo(w, lastTask[w])'
    BY <2>2, <2>4 DEF BoundTo, Start, poolVars
  <2>. QED
    BY <2>1, <2>3, <2>5 DEF Binding
<1>8. MonitorSafe'
  BY DEF MonitorSafe, PoolInvariant, Start, poolVars, monitorVars, TypeOK
<1>9. TransactionKeepsWorker'
  BY DEF TransactionKeepsWorker, PoolInvariant, Start, poolVars
<1>. QED
  BY <1>6, <1>7, <1>8, <1>9 DEF PoolInvariant

(* A transaction that the task began is bound with the task.               *)
LEMMA FinishInvariant ==
  ASSUME TypeOK, PoolInvariant, NEW w \in Workers, Finish(w)
  PROVE  PoolInvariant'
<1>1. Working(w)
  BY DEF PoolInvariant, Occupation, Idle, Given, Working, InMonitor, Finish
<1>2. ASSUME NEW v \in Workers
      PROVE  /\ Idle(v)' <=> Idle(v)
             /\ Given(v)' <=> Given(v)
             /\ Working(v)' <=> Working(v)
  <2>1. InMonitor(v)' <=> InMonitor(v)
    BY DEF InMonitor, Finish, monitorVars, TypeOK
  <2>. QED
    BY <2>1 DEF Idle, Given, Working, Finish, poolVars
<1>3. Occupation'
  BY <1>2 DEF Occupation, PoolInvariant
<1>4. Binding'
  BY <1>2 DEF Binding, PoolInvariant, BoundTo, Finish, poolVars
<1>5. MonitorSafe'
  BY DEF MonitorSafe, PoolInvariant, Finish, poolVars, monitorVars, TypeOK
<1>6. TransactionKeepsWorker'
  <2>1. BoundTo(w, lastTask[w])
    BY <1>1 DEF Binding, PoolInvariant
  <2>. QED
    BY <2>1 DEF TransactionKeepsWorker, PoolInvariant, BoundTo, Finish, TypeOK,
       poolVars
<1>. QED
  BY <1>3, <1>4, <1>5, <1>6 DEF PoolInvariant

(* A worker that becomes idle has no task, so nothing bound to it is lost. *)
LEMMA IdleInvariant ==
  ASSUME TypeOK, PoolInvariant, NEW w \in Workers, OnWorkerIdle(w)
  PROVE  PoolInvariant'
<1>1. Working(w)
  BY PoolAssumption
     DEF PoolInvariant, Occupation, Idle, Given, Working, InMonitor, OnWorkerIdle
<1>2. Idle(w)'
  BY <1>1 DEF Idle, Working, InMonitor, OnWorkerIdle, workerVars
<1>3. ASSUME NEW v \in Workers, v # w
      PROVE  /\ Idle(v)' <=> Idle(v)
             /\ Given(v)' <=> Given(v)
             /\ Working(v)' <=> Working(v)
  <2>1. InMonitor(v)' <=> InMonitor(v)
    BY <1>3, PoolAssumption DEF InMonitor, OnWorkerIdle, workerVars
  <2>. QED
    BY <1>3, <2>1 DEF Idle, Given, Working, OnWorkerIdle, workerVars
<1>4. Occupation'
  BY <1>2, <1>3 DEF Occupation, PoolInvariant
<1>5. ASSUME NEW v \in Workers, v # w, NEW t \in Task, BoundTo(v, t)
      PROVE  BoundTo(v, t)'
  <2>1. BoundTo(w, lastTask[w])
    BY <1>1 DEF Binding, PoolInvariant
  <2>. QED
    BY <1>5, <2>1 DEF BoundTo, OnWorkerIdle, TypeOK, Task
<1>6. Binding'
  <2>1. ASSUME NEW v \in Workers, v # w
        PROVE  /\ \A t \in Task : handler'[v] = <<t>> => BoundTo(v, t)'
               /\ Working(v)' => BoundTo(v, lastTask[v])'
    <3>1. lastTask[v] \in Task /\ lastTask'[v] = lastTask[v]
          /\ handler'[v] = handler[v]
      BY DEF TypeOK, OnWorkerIdle, workerVars
    <3>2. Working(v)' => BoundTo(v, lastTask[v])
      BY <1>3, <2>1 DEF Binding, PoolInvariant
    <3>3. BoundTo(v, lastTask[v]) => BoundTo(v, lastTask[v])'
      BY <1>5, <2>1, <3>1 DEF BoundTo
    <3>4. \A t \in Task : handler[v] = <<t>> => BoundTo(v, t)
      BY DEF Binding, PoolInvariant
    <3>. QED
      BY <1>5, <2>1, <3>1, <3>2, <3>3, <3>4
  <2>2. /\ \A t \in Task : handler'[w] # <<t>>
        /\ ~Working(w)'
    BY <1>2 DEF Idle, Working
  <2>. QED
    BY <2>1, <2>2 DEF Binding
<1>7. MonitorSafe'
  BY PoolAssumption DEF MonitorSafe, PoolInvariant, OnWorkerIdle, workerVars
<1>8. TransactionKeepsWorker'
  BY PoolAssumption DEF TransactionKeepsWorker, PoolInvariant, OnWorkerIdle,
     isInTransaction, TypeOK
<1>. QED
  BY <1>4, <1>6, <1>7, <1>8 DEF PoolInvariant

(* Every step keeps the invariant. *)
LEMMA NextInvariant ==
  ASSUME TypeOK, PoolInvariant, [Next]_vars
  PROVE  PoolInvariant'
<1>1. CASE PlatformPost
  BY <1>1, PostInvariant, PoolAssumption DEF PlatformPost
<1>2. ASSUME NEW w \in Workers, WorkerPost(w) PROVE PoolInvariant'
  <2>1. lastTask[w].database \in Databases \cup {NoDatabase}
    BY DEF TypeOK, Task
  <2>. QED
    BY <1>2, <2>1, PostInvariant DEF WorkerPost
<1>3. ASSUME NEW w \in Workers, TryPostingTaskToWorker(w) PROVE PoolInvariant'
  <2>1. /\ w \in toTry /\ toTry' = toTry \ {w}
        /\ UNCHANGED <<holder, stage, lastTask, beganOn, posted>>
    BY <1>3 DEF TryPostingTaskToWorker
  <2>2. CASE UNCHANGED <<poolVars, handler>>
    <3>1. Occupation' /\ Binding'
      BY <2>1, <2>2 DEF PoolInvariant, Occupation, Binding, Idle, Given, Working,
         InMonitor, BoundTo, poolVars
    <3>2. MonitorSafe' /\ TransactionKeepsWorker'
      BY <2>1, <2>2 DEF PoolInvariant, MonitorSafe, TransactionKeepsWorker, poolVars
    <3>. QED
      BY <3>1, <3>2 DEF PoolInvariant
  <2>3. CASE \E i \in DOMAIN waitingList : IsFoundFor(w, i) /\ HandOver(w, i)
    <3>1. PICK i \in DOMAIN waitingList : IsFoundFor(w, i) /\ HandOver(w, i)
      BY <2>3
    <3>2. Eligible(w, waitingList[i])
      BY <3>1 DEF IsFoundFor
    <3>. QED
      BY <2>1, <3>1, <3>2, HandOverInvariant
  <2>. QED
    BY <1>3, <2>2, <2>3 DEF TryPostingTaskToWorker
<1>4. CASE LeaveMonitor
  BY <1>4, LeaveInvariant
<1>5. ASSUME NEW w \in Workers, Work(w) PROVE PoolInvariant'
  BY <1>5, StartInvariant, FinishInvariant, IdleInvariant DEF Work
<1>6. CASE UNCHANGED vars
  <2>1. Occupation' /\ Binding'
    BY <1>6 DEF PoolInvariant, Occupation, Binding, Idle, Given, Working,
       InMonitor, BoundTo, vars, poolVars, monitorVars, workerVars
  <2>2. MonitorSafe' /\ TransactionKeepsWorker'
    BY <1>6 DEF PoolInvariant, MonitorSafe, TransactionKeepsWorker, vars,
       poolVars, monitorVars, workerVars
  <2>. QED
    BY <2>1, <2>2 DEF PoolInvariant
<1>. QED
  BY <1>1, <1>2, <1>3, <1>4, <1>5, <1>6 DEF Next, Monitor

(* The occupation of the workers, the binding of databases to them and     *)
(* what the thread in the monitor may do are invariant.                    *)
THEOREM PoolInvariantHolds == Spec => []PoolInvariant
BY InitInvariant, NextInvariant, PoolTypeCorrect, PTL DEF Spec

-----------------------------------------------------------------------------
(* The tasks of one database are never in the hands of two workers, for    *)
(* any number of databases, workers and tasks: "no overlapping between any *)
(* two tasks" of a database.                                               *)
THEOREM NoOverlap == Spec => []OneWorkerPerDatabase
<1>1. TypeOK /\ PoolInvariant => OneWorkerPerDatabase
  <2>. SUFFICES ASSUME TypeOK, PoolInvariant,
                       NEW d \in Databases, NEW w \in Workers, HasTaskOf(w, d)
                PROVE  onlyEligibleWorkers[d] = w
    BY DEF OneWorkerPerDatabase
  <2>0. d # NoDatabase
    BY PoolAssumption
  <2>1. CASE \E i \in DOMAIN handler[w] : handler[w][i].database = d
    <3>1. \/ handler[w] = <<>>
          \/ \E task \in Task : handler[w] = <<task>>
      BY DEF PoolInvariant, Occupation, Idle, Given, Working
    <3>2. PICK task \in Task : handler[w] = <<task>>
      BY <2>1, <3>1
    <3>3. task.database = d
      BY <2>1, <3>2, Singleton
    <3>4. BoundTo(w, task)
      BY <3>2 DEF PoolInvariant, Binding
    <3>. QED
      BY <2>0, <3>3, <3>4 DEF BoundTo
  <2>2. CASE stage[w] = "running" /\ lastTask[w].database = d
    <3>1. Working(w)
      BY <2>2 DEF PoolInvariant, Occupation, Idle, Given, InMonitor
    <3>. QED
      BY <2>0, <2>2, <3>1 DEF PoolInvariant, Binding, BoundTo
  <2>. QED
    BY <2>1, <2>2 DEF HasTaskOf
<1>. QED
  BY <1>1, PoolTypeCorrect, PoolInvariantHolds, PTL

(* An open transaction stays with the worker that began it: "all tasks in  *)
(* a transaction go to the same worker".                                   *)
THEOREM TransactionAffinity == Spec => []TransactionKeepsWorker
<1>1. PoolInvariant => TransactionKeepsWorker
  BY DEF PoolInvariant
<1>. QED
  BY <1>1, PoolInvariantHolds, PTL

-----------------------------------------------------------------------------
(* What makes NoIdleWorkerLeft inductive: an idle worker that the loop of  *)
(* the thread in the monitor will not try any more may run nothing that    *)
(* waits.                                                                  *)
Tried ==
  \A w \in idleWorkers \ toTry, i \in DOMAIN waitingList :
    ~Eligible(w, waitingList[i])

(* Every step keeps it: entering the monitor tries everybody, and handing  *)
(* a task over takes a database away from the others.                      *)
LEMMA TriedStep ==
  ASSUME TypeOK, PoolInvariant, Tried, [Next]_vars
  PROVE  Tried'
<1>1. ASSUME NEW t, NEW d, Post(t, d) PROVE Tried'
  BY <1>1 DEF Post, Tried
<1>2. ASSUME NEW w \in Workers, OnWorkerIdle(w) PROVE Tried'
  BY <1>2 DEF OnWorkerIdle, Tried
<1>3. ASSUME NEW w \in Workers, TryPostingTaskToWorker(w) PROVE Tried'
  <2>1. toTry' = toTry \ {w}
    BY <1>3 DEF TryPostingTaskToWorker
  <2>2. ASSUME NEW i \in DOMAIN waitingList, IsFoundFor(w, i), HandOver(w, i)
        PROVE  Tried'
    <3>. SUFFICES ASSUME NEW v \in idleWorkers' \ toTry',
                         NEW j \in DOMAIN waitingList',
                         Eligible(v, waitingList[j])'
                  PROVE  FALSE
      BY DEF Tried
    <3>1. v # w /\ v \in idleWorkers \ toTry /\ v \in Workers
      BY <2>1, <2>2 DEF HandOver, TypeOK
    <3>2. PICK k \in DOMAIN waitingList : waitingList'[j] = waitingList[k]
      <4>1. /\ waitingList \in Seq(Task)
            /\ Len(waitingList) \in Nat
            /\ DOMAIN waitingList = 1..Len(waitingList)
        BY LenProperties DEF TypeOK
      <4>2. /\ j \in 1..(Len(waitingList) - 1)
            /\ waitingList'[j] = IF j < i THEN waitingList[j]
                                          ELSE waitingList[j + 1]
        BY <2>2, <4>1, RemoveAtElements DEF HandOver
      <4>. QED
        BY <4>1, <4>2
    <3>3. ~Eligible(v, waitingList[k])
      BY <3>1 DEF Tried
    <3>4. waitingList[k].database \in Databases
      <4>1. waitingList[k] \in Task
        BY ElementOfSeq, LenProperties DEF TypeOK
      <4>. QED
        BY <3>3, <4>1 DEF Eligible, Task
    <3>5. /\ onlyEligibleWorkers[waitingList[k].database] \notin {v, NoWorker}
          /\ onlyEligibleWorkers'[waitingList[k].database] \in {v, NoWorker}
      BY <3>2, <3>3, <3>4, PoolAssumption DEF Eligible
    <3>6. onlyEligibleWorkers'[waitingList[k].database] = w
      BY <2>2, <3>4, <3>5 DEF HandOver
    <3>. QED
      BY <3>1, <3>5, <3>6, PoolAssumption
  <2>3. CASE /\ \A i \in DOMAIN waitingList : ~Eligible(w, waitingList[i])
             /\ UNCHANGED <<poolVars, handler>>
    BY <2>1, <2>3 DEF Tried, Eligible, poolVars
  <2>. QED
    BY <1>3, <2>2, <2>3 DEF TryPostingTaskToWorker
<1>4. CASE LeaveMonitor
  BY <1>4 DEF LeaveMonitor, Tried, Eligible, poolVars
<1>5. ASSUME NEW w \in Workers, Start(w) \/ Finish(w) PROVE Tried'
  BY <1>5 DEF Start, Finish, Tried, Eligible, poolVars, monitorVars
<1>6. CASE UNCHANGED vars
  BY <1>6 DEF vars, Tried, Eligible, poolVars, monitorVars
<1>. QED
  BY <1>1, <1>2, <1>3, <1>4, <1>5, <1>6
     DEF Next, Monitor, Work, PlatformPost, WorkerPost

(* Once the monitor is free no worker is idle while a task it may run      *)
(* waits, for any number of workers and databases: the tries of post and   *)
(* onWorkerIdle are enough after every change of eligibility.              *)
THEOREM EnoughTries == Spec => []NoIdleWorkerLeft
<1>1. Init => Tried
  BY DEF Init, Tried
<1>2. TypeOK /\ PoolInvariant /\ Tried /\ [Next]_vars => Tried'
  BY TriedStep
<1>3. PoolInvariant /\ Tried => NoIdleWorkerLeft
  BY DEF PoolInvariant, MonitorSafe, Tried, NoIdleWorkerLeft
<1>. QED
  BY <1>1, <1>2, <1>3, PoolTypeCorrect, PoolInvariantHolds, PTL DEF Spec

-----------------------------------------------------------------------------
(* What makes the refinement of DatabaseTaskQueues inductive.  Tasks wait  *)
(* in the order of their numbers, and what a worker has been given was     *)
(* posted before any task of its database that still waits.                *)
Ordered ==
  /\ \A i, j \in DOMAIN waitingList :
       i < j => waitingList[i].id < waitingList[j].id
  /\ \A i \in DOMAIN waitingList : waitingList[i].id <= posted
HandedFirst ==
  \A w \in Workers, task \in Task : handler[w] = <<task>> =>
    /\ task.id <= posted
    /\ \A i \in DOMAIN waitingList :
         /\ task.database # NoDatabase
         /\ waitingList[i].database = task.database
         => task.id < waitingList[i].id
OrderInvariant == Ordered /\ HandedFirst

(* The elements of a queue after Append. *)
LEMMA AppendElements ==
  ASSUME NEW S, NEW s \in Seq(S), NEW e \in S
  PROVE  /\ DOMAIN Append(s, e) = 1..(Len(s) + 1)
         /\ DOMAIN s = 1..Len(s) /\ Len(s) \in Nat
         /\ \A i \in DOMAIN s : Append(s, e)[i] = s[i]
         /\ Append(s, e)[Len(s) + 1] = e
<1>1. Len(s) \in Nat /\ DOMAIN s = 1..Len(s)
  BY LenProperties
<1>2. /\ Append(s, e) \in Seq(S) /\ Len(Append(s, e)) = Len(s) + 1
      /\ \A i \in 1..Len(s) : Append(s, e)[i] = s[i]
      /\ Append(s, e)[Len(s) + 1] = e
  BY AppendProperties
<1>3. DOMAIN Append(s, e) = 1..Len(Append(s, e))
  BY <1>2, LenProperties
<1>. QED
  BY <1>1, <1>2, <1>3

(* The numbers of the tasks of a database in a queue.                      *)
LEMMA IdsOfAppend ==
  ASSUME NEW s \in Seq(Task), NEW task \in Task, NEW d
  PROVE  IdsOf(Append(s, task), d) =
           IdsOf(s, d) \cup (IF task.database = d THEN {task.id} ELSE {})
<1>1. /\ DOMAIN Append(s, task) = 1..(Len(s) + 1)
      /\ DOMAIN s = 1..Len(s) /\ Len(s) \in Nat
      /\ \A i \in DOMAIN s : Append(s, task)[i] = s[i]
      /\ Append(s, task)[Len(s) + 1] = task
  BY AppendElements
<1>2. /\ DOMAIN s \subseteq DOMAIN Append(s, task)
      /\ DOMAIN Append(s, task) \subseteq DOMAIN s \cup {Len(s) + 1}
      /\ Len(s) + 1 \in DOMAIN Append(s, task)
  BY <1>1
<1>. QED
  BY <1>1, <1>2 DEF IdsOf

LEMMA IdsOfRemoveAt ==
  ASSUME NEW s \in Seq(Task), NEW i \in DOMAIN s, NEW d
  PROVE  IdsOf(s, d) = IdsOf(RemoveAt(s, i), d)
                         \cup (IF s[i].database = d THEN {s[i].id} ELSE {})
<1>1. /\ DOMAIN RemoveAt(s, i) = 1..(Len(s) - 1)
      /\ \A j \in 1..(Len(s) - 1) :
           RemoveAt(s, i)[j] = IF j < i THEN s[j] ELSE s[j + 1]
      /\ DOMAIN s = 1..Len(s) /\ Len(s) \in Nat
  BY RemoveAtElements, LenProperties
<1>2. \A j \in DOMAIN s : j = i \/ \E k \in DOMAIN RemoveAt(s, i) :
                                        RemoveAt(s, i)[k] = s[j]
  <2>. SUFFICES ASSUME NEW j \in DOMAIN s, j # i
                PROVE  \E k \in DOMAIN RemoveAt(s, i) : RemoveAt(s, i)[k] = s[j]
    OBVIOUS
  <2>1. CASE j < i
    <3>1. j \in DOMAIN RemoveAt(s, i) /\ RemoveAt(s, i)[j] = s[j]
      BY <1>1, <2>1
    <3>. QED
      BY <3>1
  <2>2. CASE ~(j < i)
    <3>1. j - 1 \in 1..(Len(s) - 1) /\ ~(j - 1 < i) /\ (j - 1) + 1 = j
      BY <1>1, <2>2
    <3>2. RemoveAt(s, i)[j - 1] = s[j]
      BY <1>1, <3>1
    <3>. QED
      BY <1>1, <3>1, <3>2
  <2>. QED
    BY <2>1, <2>2
<1>3. \A k \in DOMAIN RemoveAt(s, i) :
        \E j \in DOMAIN s : RemoveAt(s, i)[k] = s[j]
  <2>. SUFFICES ASSUME NEW k \in DOMAIN RemoveAt(s, i)
                PROVE  \E j \in DOMAIN s : RemoveAt(s, i)[k] = s[j]
    OBVIOUS
  <2>1. k \in DOMAIN s /\ k + 1 \in DOMAIN s
    BY <1>1
  <2>2. RemoveAt(s, i)[k] = s[k] \/ RemoveAt(s, i)[k] = s[k + 1]
    BY <1>1
  <2>. QED
    BY <2>1, <2>2
<1>. QED
  BY <1>2, <1>3 DEF IdsOf

LEMMA IdsOfSmall ==
  ASSUME NEW task \in Task, NEW d
  PROVE  /\ IdsOf(<<>>, d) = {}
         /\ IdsOf(<<task>>, d) = IF task.database = d THEN {task.id} ELSE {}
<1>1. DOMAIN <<>> = {} /\ DOMAIN <<task>> = {1} /\ <<task>>[1] = task
  OBVIOUS
<1>. QED
  BY <1>1 DEF IdsOf

(* Removing an element keeps the order of the others. *)
LEMMA RemoveAtOrder ==
  ASSUME NEW S, NEW s \in Seq(S), NEW i \in DOMAIN s
  PROVE  /\ \A k \in DOMAIN RemoveAt(s, i) :
              \E p \in DOMAIN s : p # i /\ RemoveAt(s, i)[k] = s[p]
         /\ \A k, l \in DOMAIN RemoveAt(s, i) : k < l =>
              \E p, q \in DOMAIN s :
                p < q /\ RemoveAt(s, i)[k] = s[p] /\ RemoveAt(s, i)[l] = s[q]
<1>. DEFINE Old(k) == IF k < i THEN k ELSE k + 1
<1>1. /\ DOMAIN RemoveAt(s, i) = 1..(Len(s) - 1)
      /\ \A j \in 1..(Len(s) - 1) :
           RemoveAt(s, i)[j] = IF j < i THEN s[j] ELSE s[j + 1]
      /\ DOMAIN s = 1..Len(s) /\ Len(s) \in Nat
  BY RemoveAtElements, LenProperties
<1>2. ASSUME NEW k \in DOMAIN RemoveAt(s, i)
      PROVE  Old(k) \in DOMAIN s /\ Old(k) # i /\ RemoveAt(s, i)[k] = s[Old(k)]
  BY <1>1
<1>3. ASSUME NEW k \in DOMAIN RemoveAt(s, i), NEW l \in DOMAIN RemoveAt(s, i), k < l
      PROVE  Old(k) < Old(l)
  BY <1>1, <1>3
<1>. HIDE DEF Old
<1>. QED
  BY <1>2, <1>3

(* Every step keeps the order of the tasks. *)
LEMMA OrderStep ==
  ASSUME TypeOK, PoolInvariant, OrderInvariant, [Next]_vars
  PROVE  OrderInvariant'
<1>0. /\ waitingList \in Seq(Task) /\ handler \in [Workers -> Seq(Task)]
      /\ posted \in Nat
      /\ \A i \in DOMAIN waitingList : waitingList[i] \in Task
      /\ \A task \in Task : task.id \in Nat
  <2>1. waitingList \in Seq(Task)
    BY DEF TypeOK
  <2>2. \A i \in DOMAIN waitingList : waitingList[i] \in Task
    BY <2>1, ElementOfSeq, LenProperties
  <2>. QED
    BY <2>1, <2>2 DEF TypeOK, Task
<1>1. ASSUME NEW t, NEW d \in Databases \cup {NoDatabase}, Post(t, d)
      PROVE  OrderInvariant'
  <2>. DEFINE task == [id |-> posted + 1, database |-> d]
  <2>1. task \in Task /\ task.id = posted + 1
    BY <1>0 DEF Task
  <2>2. /\ waitingList' = Append(waitingList, task)
        /\ handler' = handler /\ posted' = posted + 1
    BY <1>1 DEF Post, workerVars
  <2>. HIDE DEF task
  <2>3. /\ DOMAIN waitingList' = 1..(Len(waitingList) + 1)
        /\ DOMAIN waitingList = 1..Len(waitingList) /\ Len(waitingList) \in Nat
        /\ \A i \in DOMAIN waitingList : waitingList'[i] = waitingList[i]
        /\ waitingList'[Len(waitingList) + 1] = task
    BY <1>0, <2>1, <2>2, AppendElements
  <2>4. \A i \in DOMAIN waitingList' :
          i \in DOMAIN waitingList \/ i = Len(waitingList) + 1
    BY <2>3
  <2>5. \A i \in DOMAIN waitingList : waitingList[i].id \in Nat
                                        /\ waitingList[i].id <= posted
    BY <1>0 DEF OrderInvariant, Ordered
  <2>6. \A i \in DOMAIN waitingList' : waitingList'[i].id <= posted'
    BY <1>0, <2>1, <2>2, <2>3, <2>4, <2>5
  <2>7. ASSUME NEW i \in DOMAIN waitingList', NEW j \in DOMAIN waitingList', i < j
        PROVE  waitingList'[i].id < waitingList'[j].id
    <3>1. i \in DOMAIN waitingList
      BY <2>3, <2>7
    <3>2. CASE j \in DOMAIN waitingList
      BY <2>3, <2>7, <3>1, <3>2 DEF OrderInvariant, Ordered
    <3>3. CASE j = Len(waitingList) + 1
      BY <1>0, <2>1, <2>3, <2>5, <3>1, <3>3
    <3>. QED
      BY <2>4, <3>2, <3>3
  <2>8. HandedFirst'
    <3>. SUFFICES ASSUME NEW w \in Workers, NEW u \in Task, handler'[w] = <<u>>
                  PROVE  /\ u.id <= posted'
                         /\ \A i \in DOMAIN waitingList' :
                              /\ u.database # NoDatabase
                              /\ waitingList'[i].database = u.database
                              => u.id < waitingList'[i].id
      BY DEF HandedFirst
    <3>1. /\ u.id <= posted
          /\ \A i \in DOMAIN waitingList :
               /\ u.database # NoDatabase
               /\ waitingList[i].database = u.database
               => u.id < waitingList[i].id
      BY <2>2 DEF OrderInvariant, HandedFirst
    <3>2. u.id \in Nat /\ u.id < task.id
      BY <1>0, <2>1, <3>1
    <3>3. u.id <= posted'
      BY <1>0, <2>2, <3>1, <3>2
    <3>. QED
      BY <2>3, <2>4, <3>1, <3>2, <3>3
  <2>. QED
    BY <2>6, <2>7, <2>8 DEF OrderInvariant, Ordered
<1>2. ASSUME NEW w \in Workers, NEW r \in DOMAIN waitingList, w \in toTry,
             IsFoundFor(w, r), HandOver(w, r), posted' = posted
      PROVE  OrderInvariant'
  <2>. DEFINE task == waitingList[r]
  <2>1. /\ \A k \in DOMAIN waitingList' :
              \E p \in DOMAIN waitingList : p # r /\ waitingList'[k] = waitingList[p]
        /\ \A k, l \in DOMAIN waitingList' : k < l =>
              \E p, q \in DOMAIN waitingList :
                /\ p < q
                /\ waitingList'[k] = waitingList[p] /\ waitingList'[l] = waitingList[q]
    BY <1>0, <1>2, RemoveAtOrder DEF HandOver
  <2>2. Ordered'
    BY <1>2, <2>1 DEF Ordered, OrderInvariant
  <2>3. handler'[w] = <<task>> /\ \A v \in Workers : v # w => handler'[v] = handler[v]
    <3>1. handler[w] = <<>>
      BY <1>2 DEF PoolInvariant, Occupation, MonitorSafe, Idle, Given, Working
    <3>. QED
      BY <1>0, <1>2, <3>1, AppendToEmpty DEF HandOver
  <2>4. \A p \in DOMAIN waitingList :
          /\ p # r /\ task.database # NoDatabase
          /\ waitingList[p].database = task.database
          => task.id < waitingList[p].id
    <3>. SUFFICES ASSUME NEW p \in DOMAIN waitingList, p # r,
                         waitingList[p].database = task.database
                  PROVE  r < p
      BY DEF OrderInvariant, Ordered
    <3>1. Eligible(w, waitingList[p])
      BY <1>2 DEF IsFoundFor, Eligible
    <3>2. p \notin 1..(r - 1)
      BY <1>2, <3>1 DEF IsFoundFor
    <3>. QED
      BY <1>0, <3>2, LenProperties
  <2>5. HandedFirst'
    <3>. SUFFICES ASSUME NEW v \in Workers, NEW u \in Task, handler'[v] = <<u>>
                  PROVE  /\ u.id <= posted'
                         /\ \A i \in DOMAIN waitingList' :
                              /\ u.database # NoDatabase
                              /\ waitingList'[i].database = u.database
                              => u.id < waitingList'[i].id
      BY DEF HandedFirst
    <3>1. CASE v = w
      <4>1. u = task
        BY <2>3, <3>1
      <4>2. u.id <= posted'
        BY <1>2, <4>1 DEF OrderInvariant, Ordered
      <4>. QED
        BY <2>1, <2>4, <4>1, <4>2
    <3>2. CASE v # w
      <4>1. handler[v] = <<u>>
        BY <2>3, <3>2
      <4>2. /\ u.id <= posted'
            /\ \A p \in DOMAIN waitingList :
                 /\ u.database # NoDatabase
                 /\ waitingList[p].database = u.database
                 => u.id < waitingList[p].id
        BY <1>2, <4>1 DEF OrderInvariant, HandedFirst
      <4>. QED
        BY <2>1, <4>2
    <3>. QED
      BY <3>1, <3>2
  <2>. QED
    BY <2>2, <2>5 DEF OrderInvariant
<1>3. ASSUME UNCHANGED <<waitingList, handler, posted>> PROVE OrderInvariant'
  BY <1>3 DEF OrderInvariant, Ordered, HandedFirst
<1>4. ASSUME NEW w \in Workers, Start(w) PROVE OrderInvariant'
  <2>1. \A v \in Workers : handler'[v] = handler[v] \/ handler'[v] = <<>>
    <3>1. Given(w)
      BY <1>4 DEF PoolInvariant, Occupation, Idle, Working, Start
    <3>2. PICK task \in Task : handler[w] = <<task>>
      BY <3>1 DEF Given
    <3>. QED
      BY <1>0, <1>4, <3>2, Singleton DEF Start
  <2>2. \A task \in Task : <<>> # <<task>>
    OBVIOUS
  <2>. QED
    BY <1>4, <2>1, <2>2 DEF Start, OrderInvariant, Ordered, HandedFirst, poolVars
<1>5. ASSUME NEW w \in Workers, WorkerPost(w) PROVE OrderInvariant'
  <2>1. lastTask[w].database \in Databases \cup {NoDatabase}
    BY DEF TypeOK, Task
  <2>. QED
    BY <1>1, <1>5, <2>1 DEF WorkerPost
<1>6. ASSUME NEW w \in Workers, TryPostingTaskToWorker(w) PROVE OrderInvariant'
  BY <1>2, <1>3, <1>6 DEF TryPostingTaskToWorker, poolVars
<1>7. ASSUME NEW w \in Workers, Finish(w) \/ OnWorkerIdle(w) PROVE OrderInvariant'
  BY <1>3, <1>7 DEF Finish, OnWorkerIdle, poolVars, workerVars
<1>8. CASE LeaveMonitor
  BY <1>3, <1>8 DEF LeaveMonitor, poolVars
<1>9. CASE UNCHANGED vars
  BY <1>3, <1>9 DEF vars, poolVars, workerVars
<1>. QED
  BY <1>1, <1>4, <1>5, <1>6, <1>7, <1>8, <1>9
     DEF Next, Monitor, Work, PlatformPost

-----------------------------------------------------------------------------
(* How the steps move what DatabaseTaskQueues sees. *)

(* A posted task is the last of its database. *)
LEMMA PostMaps ==
  ASSUME TypeOK, NEW t, NEW d \in Databases \cup {NoDatabase}, Post(t, d)
  PROVE  Queues!Next
<1>. DEFINE task == [id |-> posted + 1, database |-> d]
<1>1. task \in Task /\ task.id = posted + 1 /\ task.database = d
  BY DEF Task, TypeOK
<1>2. /\ waitingList' = Append(waitingList, task)
      /\ UNCHANGED <<handler, stage, lastTask, beganOn>> /\ posted' = posted + 1
  BY DEF Post, workerVars
<1>. HIDE DEF task
<1>3. \A e \in Databases :
        QueueOf(e)' = QueueOf(e) \cup (IF d = e THEN {posted + 1} ELSE {})
  <2>1. \A e : IdsOf(waitingList', e) =
                 IdsOf(waitingList, e) \cup (IF d = e THEN {posted + 1} ELSE {})
    BY <1>1, <1>2, IdsOfAppend DEF TypeOK
  <2>2. \A e : UNION {IdsOf(handler'[w], e) : w \in Workers} =
                 UNION {IdsOf(handler[w], e) : w \in Workers}
    BY <1>2
  <2>3. \A e : QueueOf(e)' = IdsOf(waitingList', e)
                              \cup UNION {IdsOf(handler'[w], e) : w \in Workers}
    BY DEF QueueOf, IdsOf
  <2>. QED
    BY <2>1, <2>2, <2>3 DEF QueueOf
<1>4. UNCHANGED <<[e \in Databases |-> RunnersOf(e)], beganOn>>
  BY <1>2 DEF RunnersOf
<1>5. CASE d \in Databases
  <2>1. [e \in Databases |-> QueueOf(e)]' =
          [[e \in Databases |-> QueueOf(e)] EXCEPT ![d] = @ \cup {posted + 1}]
    BY <1>3, <1>5
  <2>. QED
    BY <1>2, <1>4, <1>5, <2>1 DEF Queues!Next, Queues!Post
<1>6. CASE d = NoDatabase
  <2>1. [e \in Databases |-> QueueOf(e)]' = [e \in Databases |-> QueueOf(e)]
    BY <1>3, <1>6, PoolAssumption
  <2>. QED
    BY <1>2, <1>4, <2>1 DEF Queues!Next, Queues!PostOfNone
<1>. QED
  BY <1>5, <1>6

(* Handing a task over leaves it among the tasks of its database.          *)
LEMMA HandOverMaps ==
  ASSUME TypeOK, PoolInvariant, NEW w \in Workers, NEW i \in DOMAIN waitingList,
         w \in toTry, HandOver(w, i), NEW d
  PROVE  QueueOf(d)' = QueueOf(d)
<1>. DEFINE task == waitingList[i]
            one == IF task.database = d THEN {task.id} ELSE {}
<1>1. task \in Task
  BY HandOverTyped
<1>2. handler[w] = <<>>
  BY DEF PoolInvariant, Occupation, MonitorSafe, Idle, Given, Working
<1>3. handler'[w] = <<task>> /\ \A v \in Workers : v # w => handler'[v] = handler[v]
  BY <1>1, <1>2, AppendToEmpty DEF HandOver, TypeOK
<1>4. IdsOf(waitingList, d) = IdsOf(waitingList', d) \cup one
  BY IdsOfRemoveAt DEF HandOver, TypeOK
<1>5. IdsOf(handler[w], d) = {} /\ IdsOf(handler'[w], d) = one
  BY <1>1, <1>2, <1>3, IdsOfSmall
<1>6. QueueOf(d)' = IdsOf(waitingList', d)
                      \cup UNION {IdsOf(handler'[v], d) : v \in Workers}
  BY DEF QueueOf, IdsOf
<1>7. \A v \in Workers : v # w => IdsOf(handler'[v], d) = IdsOf(handler[v], d)
  BY <1>3
<1>. HIDE DEF one
<1>. QED
  BY <1>4, <1>5, <1>6, <1>7 DEF QueueOf

(* A worker starts the first task of its database, on the thread of an     *)
(* open transaction, when nobody runs a task of it.                        *)
LEMMA StartMaps ==
  ASSUME TypeOK, PoolInvariant, OrderInvariant, NEW w \in Workers, Start(w)
  PROVE  Queues!Next \/ UNCHANGED Queues!vars
<1>. USE DEF PoolInvariant
<1>0. Given(w)
  BY DEF Occupation, Idle, Working, Start
<1>. PICK task \in Task : handler[w] = <<task>>
  BY <1>0 DEF Given
<1>1. /\ handler' = [handler EXCEPT ![w] = <<>>]
      /\ lastTask' = [lastTask EXCEPT ![w] = task]
      /\ stage' = [stage EXCEPT ![w] = "running"]
      /\ UNCHANGED <<waitingList, posted, beganOn>>
  BY Singleton DEF Start, poolVars
<1>2. /\ stage \in [Workers -> {"looping", "running", "idling"}]
      /\ handler \in [Workers -> Seq(Task)] /\ lastTask \in [Workers -> Task]
      /\ task.database \in Databases \cup {NoDatabase} /\ task.id \in Nat
      /\ stage[w] = "looping"
  BY DEF TypeOK, Task, Start
<1>3. \A d : QueueOf(d)' = IdsOf(waitingList, d)
                     \cup UNION {IdsOf(handler'[v], d) : v \in Workers}
  BY <1>1 DEF QueueOf, IdsOf
<1>4. \A d : /\ IdsOf(handler[w], d) = IF task.database = d THEN {task.id} ELSE {}
             /\ IdsOf(handler'[w], d) = {}
             /\ \A v \in Workers : v # w =>
                  IdsOf(handler'[v], d) = IdsOf(handler[v], d)
  <2>1. handler'[w] = <<>> /\ \A v \in Workers : v # w => handler'[v] = handler[v]
    BY <1>1, <1>2
  <2>. QED
    BY <2>1, IdsOfSmall
<1>5. ASSUME NEW d \in Databases, d # task.database
      PROVE  QueueOf(d)' = QueueOf(d) /\ RunnersOf(d)' = RunnersOf(d)
  <2>1. QueueOf(d)' = QueueOf(d)
    BY <1>3, <1>4, <1>5 DEF QueueOf
  <2>2. \A v \in Workers :
          stage'[v] = "running" /\ lastTask'[v].database = d
            <=> stage[v] = "running" /\ lastTask[v].database = d
    BY <1>1, <1>2, <1>5
  <2>. QED
    BY <2>1, <2>2 DEF RunnersOf
<1>6. CASE task.database = NoDatabase
  <2>1. \A d \in Databases : d # task.database
    BY <1>6, PoolAssumption
  <2>2. UNCHANGED <<[d \in Databases |-> QueueOf(d)],
                    [d \in Databases |-> RunnersOf(d)]>>
    BY <1>5, <2>1
  <2>. QED
    BY <1>1, <2>2 DEF Queues!vars
<1>7. CASE task.database \in Databases
  <2>. DEFINE d == task.database
  <2>0. d # NoDatabase
    BY <1>7, PoolAssumption
  <2>1. onlyEligibleWorkers[d] = w
    BY <2>0 DEF Binding, BoundTo
  <2>2. \A v \in Workers : v # w => IdsOf(handler[v], d) = {}
    <3>. SUFFICES ASSUME NEW v \in Workers, v # w
                  PROVE  IdsOf(handler[v], d) = {}
      OBVIOUS
    <3>1. CASE handler[v] = <<>>
      BY <3>1, IdsOfSmall
    <3>2. CASE Given(v)
      <4>1. PICK other \in Task : handler[v] = <<other>>
        BY <3>2 DEF Given
      <4>2. other.database # d
        BY <2>0, <2>1, <4>1 DEF Binding, BoundTo
      <4>. QED
        BY <4>1, <4>2, IdsOfSmall
    <3>. QED
      BY <3>1, <3>2 DEF Occupation, Idle, Working
  <2>3. \A v \in Workers : ~(stage[v] = "running" /\ lastTask[v].database = d)
    <3>. SUFFICES ASSUME NEW v \in Workers, stage[v] = "running",
                         lastTask[v].database = d
                  PROVE  FALSE
      OBVIOUS
    <3>1. Working(v)
      BY DEF Occupation, Idle, Given, InMonitor
    <3>. QED
      BY <1>2, <2>0, <2>1, <3>1 DEF Binding, BoundTo
  <2>4. QueueOf(d) = IdsOf(waitingList, d) \cup {task.id}
    BY <1>4, <2>2 DEF QueueOf
  <2>5. QueueOf(d)' = IdsOf(waitingList, d)
    <3>1. \A v \in Workers : IdsOf(handler'[v], d) = {}
      BY <1>4, <2>2
    <3>2. UNION {IdsOf(handler'[v], d) : v \in Workers} = {}
      BY <3>1
    <3>. QED
      BY <1>3, <3>2
  <2>6. \A n \in IdsOf(waitingList, d) : n \in Nat /\ task.id < n
    <3>1. \A i \in DOMAIN waitingList : waitingList[i] \in Task
      BY ElementOfSeq, LenProperties DEF TypeOK
    <3>2. \A i \in DOMAIN waitingList :
            waitingList[i].database = d =>
              waitingList[i].id \in Nat /\ task.id < waitingList[i].id
      BY <2>0, <3>1 DEF OrderInvariant, HandedFirst, Task
    <3>. QED
      BY <3>2 DEF IdsOf
  <2>7. QueueOf(d)' = QueueOf(d) \ {task.id} /\ task.id \in QueueOf(d)
        /\ \A n \in QueueOf(d) : task.id <= n
    BY <1>2, <2>4, <2>5, <2>6
  <2>8. RunnersOf(d) = {} /\ RunnersOf(d)' = {w}
    <3>1. \A v \in Workers :
            stage'[v] = "running" /\ lastTask'[v].database = d <=> v = w
      BY <1>1, <1>2, <2>3
    <3>. QED
      BY <2>3, <3>1 DEF RunnersOf
  <2>9. beganOn[d] \in {w, NoWorker}
    BY <1>7, <2>1 DEF TransactionKeepsWorker
  <2>. HIDE DEF d
  <2>10. d \in Databases /\ \A e \in Databases :
           e # d => QueueOf(e)' = QueueOf(e) /\ RunnersOf(e)' = RunnersOf(e)
    BY <1>5, <1>7 DEF d
  <2>11. /\ [e \in Databases |-> QueueOf(e)]' =
              [[e \in Databases |-> QueueOf(e)] EXCEPT ![d] = @ \ {task.id}]
         /\ [e \in Databases |-> RunnersOf(e)]' =
              [[e \in Databases |-> RunnersOf(e)] EXCEPT ![d] = {w}]
    BY <2>7, <2>8, <2>10
  <2>12. Queues!Start(d, w)
    BY <1>1, <2>7, <2>8, <2>9, <2>10, <2>11 DEF Queues!Start, Queues!First
  <2>. QED
    BY <2>10, <2>12 DEF Queues!Next
<1>. QED
  BY <1>2, <1>6, <1>7

(* A worker finishes the one task of its database that runs; a transaction *)
(* begins or ends on its thread.                                           *)
LEMMA FinishMaps ==
  ASSUME TypeOK, PoolInvariant, NEW w \in Workers, Finish(w)
  PROVE  Queues!Next \/ UNCHANGED Queues!vars
<1>. USE DEF PoolInvariant
<1>. PICK d : d = lastTask[w].database
  OBVIOUS
<1>1. /\ stage[w] = "running" /\ stage' = [stage EXCEPT ![w] = "idling"]
      /\ stage \in [Workers -> {"looping", "running", "idling"}]
      /\ UNCHANGED <<waitingList, handler, lastTask, posted>>
      /\ d \in Databases \cup {NoDatabase}
  BY DEF Finish, poolVars, TypeOK, Task
<1>2. Working(w)
  BY <1>1 DEF Occupation, Idle, Given, InMonitor
<1>3. [e \in Databases |-> QueueOf(e)]' = [e \in Databases |-> QueueOf(e)]
  BY <1>1 DEF QueueOf, IdsOf
<1>4. \A e \in Databases : e # d => RunnersOf(e)' = RunnersOf(e)
  BY <1>1 DEF RunnersOf
<1>5. CASE d = NoDatabase
  <2>1. \A e \in Databases : e # d
    BY <1>5, PoolAssumption
  <2>2. [e \in Databases |-> RunnersOf(e)]' = [e \in Databases |-> RunnersOf(e)]
    BY <1>4, <2>1
  <2>3. UNCHANGED beganOn
    BY <1>5 DEF Finish
  <2>. QED
    BY <1>1, <1>3, <2>2, <2>3 DEF Queues!vars
<1>6. CASE d \in Databases
  <2>0. d # NoDatabase
    BY <1>6, PoolAssumption
  <2>1. onlyEligibleWorkers[d] = w
    BY <1>2, <2>0 DEF Binding, BoundTo
  <2>2. \A v \in Workers : stage[v] = "running" /\ lastTask[v].database = d => v = w
    <3>. SUFFICES ASSUME NEW v \in Workers, stage[v] = "running",
                         lastTask[v].database = d
                  PROVE  v = w
      OBVIOUS
    <3>1. Working(v)
      BY DEF Occupation, Idle, Given, InMonitor
    <3>. QED
      BY <2>0, <2>1, <3>1 DEF Binding, BoundTo
  <2>3. RunnersOf(d) = {w} /\ RunnersOf(d)' = {}
    BY <1>1, <2>2 DEF RunnersOf
  <2>4. \E after \in {w, NoWorker} : beganOn' = [beganOn EXCEPT ![d] = after]
    <3>1. beganOn[d] \in {w, NoWorker} /\ beganOn \in [Databases -> Workers \cup {NoWorker}]
      BY <1>6, <2>1 DEF TransactionKeepsWorker, TypeOK
    <3>2. CASE UNCHANGED beganOn
      BY <1>6, <3>1, <3>2
    <3>3. CASE beganOn' = [beganOn EXCEPT ![d] = IF @ = NoWorker THEN w ELSE NoWorker]
      BY <1>6, <3>1, <3>3
    <3>. QED
      BY <3>2, <3>3 DEF Finish
  <2>5. [e \in Databases |-> RunnersOf(e)]' =
          [[e \in Databases |-> RunnersOf(e)] EXCEPT ![d] = {}]
    BY <1>4, <1>6, <2>3
  <2>6. Queues!Finish(d, w)
    BY <1>1, <1>3, <1>6, <2>3, <2>4, <2>5 DEF Queues!Finish
  <2>. QED
    BY <1>6, <2>6 DEF Queues!Next
<1>. QED
  BY <1>1, <1>5, <1>6

(* Every step of the pool is one of the abstract scheduler, or none.       *)
LEMMA StepMaps ==
  ASSUME TypeOK, PoolInvariant, OrderInvariant, [Next]_vars
  PROVE  [Queues!Next]_(Queues!vars)
<1>1. ASSUME UNCHANGED <<posted, waitingList, handler, lastTask, beganOn>>,
             \A w \in Workers : stage'[w] = "running" <=> stage[w] = "running"
      PROVE  UNCHANGED Queues!vars
  <2>1. /\ \A d : QueueOf(d)' = QueueOf(d)
        /\ \A d : RunnersOf(d)' = RunnersOf(d)
    BY <1>1 DEF QueueOf, IdsOf, RunnersOf
  <2>. QED
    BY <1>1, <2>1 DEF Queues!vars
<1>2. CASE PlatformPost
  BY <1>2, PostMaps DEF PlatformPost
<1>3. ASSUME NEW w \in Workers, WorkerPost(w) PROVE Queues!Next
  <2>1. lastTask[w].database \in Databases \cup {NoDatabase}
    BY DEF TypeOK, Task
  <2>. QED
    BY <1>3, <2>1, PostMaps DEF WorkerPost
<1>4. ASSUME NEW w \in Workers, TryPostingTaskToWorker(w)
      PROVE  UNCHANGED Queues!vars
  <2>1. CASE UNCHANGED <<poolVars, handler>>
    BY <1>1, <1>4, <2>1 DEF TryPostingTaskToWorker, poolVars
  <2>2. ASSUME NEW i \in DOMAIN waitingList, HandOver(w, i)
        PROVE  UNCHANGED Queues!vars
    <3>1. w \in toTry /\ UNCHANGED <<stage, lastTask, beganOn, posted>>
      BY <1>4 DEF TryPostingTaskToWorker
    <3>2. \A d : QueueOf(d)' = QueueOf(d)
      BY <2>2, <3>1, HandOverMaps
    <3>3. \A d : RunnersOf(d)' = RunnersOf(d)
      BY <3>1 DEF RunnersOf
    <3>. QED
      BY <3>1, <3>2, <3>3 DEF Queues!vars
  <2>. QED
    BY <1>4, <2>1, <2>2 DEF TryPostingTaskToWorker
<1>5. ASSUME NEW w \in Workers, OnWorkerIdle(w) PROVE UNCHANGED Queues!vars
  BY <1>1, <1>5 DEF OnWorkerIdle, workerVars
<1>6. CASE LeaveMonitor
  BY <1>1, <1>6 DEF LeaveMonitor, poolVars
<1>7. CASE UNCHANGED vars
  BY <1>1, <1>7 DEF vars, poolVars, workerVars
<1>. QED
  BY <1>2, <1>3, <1>4, <1>5, <1>6, <1>7, StartMaps, FinishMaps
     DEF Next, Monitor, Work

(* The pool implements the scheduler that the comment of post describes,   *)
(* for any number of workers, databases and tasks: first posted, first     *)
(* started, one at a time, a transaction on one thread.                    *)
THEOREM Implements == Spec => ImplementsDatabaseTaskQueues
<1>1. Init => OrderInvariant /\ Queues!Init
  <2>. SUFFICES ASSUME Init PROVE OrderInvariant /\ Queues!Init
    OBVIOUS
  <2>1. OrderInvariant
    <3>1. \A task \in Task : <<>> # <<task>>
      OBVIOUS
    <3>. QED
      BY <3>1 DEF Init, OrderInvariant, Ordered, HandedFirst
  <2>2. \A d : QueueOf(d) = {} /\ RunnersOf(d) = {}
    BY DEF Init, QueueOf, RunnersOf, IdsOf
  <2>3. /\ [d \in Databases |-> QueueOf(d)] = [d \in Databases |-> {}]
        /\ [d \in Databases |-> RunnersOf(d)] = [d \in Databases |-> {}]
    BY <2>2
  <2>. QED
    BY <2>1, <2>3 DEF Init, Queues!Init
<1>2. TypeOK /\ PoolInvariant /\ OrderInvariant /\ [Next]_vars => OrderInvariant'
  BY OrderStep
<1>3. TypeOK /\ PoolInvariant /\ OrderInvariant /\ [Next]_vars
        => [Queues!Next]_(Queues!vars)
  BY StepMaps
<1>. QED
  BY <1>1, <1>2, <1>3, PoolTypeCorrect, PoolInvariantHolds, PTL
     DEF Spec, ImplementsDatabaseTaskQueues, Queues!Spec
=============================================================================
