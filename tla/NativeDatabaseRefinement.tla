----------------------- MODULE NativeDatabaseRefinement -----------------------
(* NativeDatabase keeps parked calls apart from the active transaction,     *)
(* transactions atomic, and implements TransactionStore, for any number of  *)
(* isolates, transactions and hot restarts.                                 *)
EXTENDS NativeDatabaseProofs

(* The calls in a sequence of tasks, and all of those in flight. *)
Calls(s) == {s[i] : i \in DOMAIN s} \cap Call
InFlight == Calls(tasks) \cup Calls(noTransactionOperationQueue)

LEMMA TailFacts ==
  ASSUME NEW S, NEW s \in Seq(S), s # <<>>
  PROVE  /\ 1 \in DOMAIN s /\ Head(s) = s[1]
         /\ \A i \in DOMAIN Tail(s) : /\ i + 1 \in DOMAIN s /\ i + 1 # 1
                                      /\ Tail(s)[i] = s[i + 1]
<1>1. /\ Tail(s) \in Seq(S) /\ Len(Tail(s)) = Len(s) - 1 /\ Len(s) \in Nat \ {0}
      /\ \A i \in 1..Len(Tail(s)) : Tail(s)[i] = s[i + 1]
      /\ Head(s) = s[1]
  BY HeadTailProperties, LenProperties
<1>2. DOMAIN s = 1..Len(s) /\ DOMAIN Tail(s) = 1..Len(Tail(s))
  BY <1>1, LenProperties
<1>. QED
  BY <1>1, <1>2

LEMMA AppendFacts ==
  ASSUME NEW S, NEW s \in Seq(S), NEW e \in S
  PROVE  \A i \in DOMAIN Append(s, e) :
           \/ i \in DOMAIN s /\ Append(s, e)[i] = s[i]
           \/ i = Len(s) + 1 /\ i \notin DOMAIN s /\ Append(s, e)[i] = e
<1>1. /\ Append(s, e) \in Seq(S) /\ Len(Append(s, e)) = Len(s) + 1
      /\ \A i \in 1..Len(s) : Append(s, e)[i] = s[i]
      /\ Append(s, e)[Len(s) + 1] = e
  BY AppendProperties
<1>2. /\ DOMAIN s = 1..Len(s) /\ Len(s) \in Nat
      /\ DOMAIN Append(s, e) = 1..(Len(s) + 1)
  BY <1>1, LenProperties
<1>. QED
  BY <1>1, <1>2

LEMMA CallsOfTail ==
  ASSUME NEW S, NEW s \in Seq(S), s # <<>>
  PROVE  /\ Calls(Tail(s)) \subseteq Calls(s)
         /\ Head(s) \in Call => Head(s) \in Calls(s)
BY TailFacts DEF Calls

LEMMA CallsOfAppend ==
  ASSUME NEW S, NEW s \in Seq(S), NEW e \in S
  PROVE  Calls(Append(s, e)) \subseteq Calls(s) \cup ({e} \cap Call)
BY AppendFacts DEF Calls
-----------------------------------------------------------------------------
(* NoSelfDeadlock, whatever the isolates call and SQLite answers.          *)

(* Ids are handed out in order: what is parked has an older one than any   *)
(* transaction begun later.                                                *)
ParkedInvariant ==
  /\ currentTransactionId <= lastTransactionId
  /\ \A c \in Clients : held[c] <= lastTransactionId
  /\ \A k \in InFlight : k.tid <= lastTransactionId
  /\ \A k \in Calls(noTransactionOperationQueue) :
       /\ k.tid # ForceId
       /\ currentTransactionId # NoTransaction => k.tid # currentTransactionId

(* What a call that runs does to the ids. *)
LEMMA RunIds ==
  ASSUME TypeOK, NEW k \in Call, Run(k)
  PROVE  /\ \/ lastTransactionId' = lastTransactionId
            \/ lastTransactionId' = lastTransactionId + 1
         /\ currentTransactionId' \in {currentTransactionId, NoTransaction, lastTransactionId'}
         /\ \/ currentTransactionId' \in {currentTransactionId, NoTransaction}
            \/ lastTransactionId' = lastTransactionId + 1
         /\ \A c \in Clients : held'[c] \in {held[c], NoTransaction, lastTransactionId'}
<1>1. k.client \in Clients /\ held \in [Clients -> Nat]
  BY DEF Call, TypeOK
<1>2. CASE DoBegin(k)
  BY <1>1, <1>2 DEF DoBegin, Reply
<1>3. CASE DoStatement(k)
  BY <1>1, <1>3 DEF DoStatement, Reply, nativeVars
<1>4. CASE DoCommit(k)
  BY <1>1, <1>4 DEF DoCommit, LeaveTransaction, Reply, nativeVars
<1>5. CASE DoRollback(k)
  BY <1>1, <1>5 DEF DoRollback, LeaveTransaction, Reply, nativeVars
<1>. QED
  BY <1>2, <1>3, <1>4, <1>5 DEF Run

LEMMA RunKeepsParked ==
  ASSUME TypeOK, TypeOK', ParkedInvariant, NEW k \in Call, Run(k),
         InFlight' \subseteq InFlight,
         Calls(noTransactionOperationQueue)' \subseteq Calls(noTransactionOperationQueue)
  PROVE  ParkedInvariant'
<1>1. /\ lastTransactionId \in Nat /\ currentTransactionId \in Nat
      /\ lastTransactionId' \in Nat /\ held \in [Clients -> Nat]
      /\ \A x \in InFlight : x.tid \in Nat \cup {ForceId}
      /\ Calls(noTransactionOperationQueue) \subseteq InFlight
      /\ NoTransaction = 0 /\ ForceId = -1
  BY DEF TypeOK, InFlight, Calls, Call, NoTransaction, ForceId
<1>2. /\ \/ lastTransactionId' = lastTransactionId
         \/ lastTransactionId' = lastTransactionId + 1
      /\ currentTransactionId' \in {currentTransactionId, NoTransaction, lastTransactionId'}
      /\ \/ currentTransactionId' \in {currentTransactionId, NoTransaction}
         \/ lastTransactionId' = lastTransactionId + 1
      /\ \A c \in Clients : held'[c] \in {held[c], NoTransaction, lastTransactionId'}
  BY RunIds
<1>3. currentTransactionId' <= lastTransactionId'
  BY <1>1, <1>2 DEF ParkedInvariant
<1>4. ASSUME NEW c \in Clients PROVE held'[c] <= lastTransactionId'
  BY <1>1, <1>2 DEF ParkedInvariant
<1>5. ASSUME NEW x \in InFlight PROVE x.tid <= lastTransactionId'
  BY <1>1, <1>2 DEF ParkedInvariant
<1>6. ASSUME NEW x \in Calls(noTransactionOperationQueue),
             currentTransactionId' # NoTransaction
      PROVE  x.tid # currentTransactionId'
  <2>1. x.tid <= lastTransactionId /\ x.tid \in Nat \cup {ForceId}
    BY <1>1 DEF ParkedInvariant
  <2>. QED
    BY <1>1, <1>2, <1>6, <2>1 DEF ParkedInvariant
<1>. QED
  BY <1>3, <1>4, <1>5, <1>6 DEF ParkedInvariant

(* What an isolate sends has no id, the forced one or the one it holds.    *)
LEMMA ClientSends ==
  ASSUME TypeOK, NEW c \in Clients, Client(c)
  PROVE  /\ UNCHANGED <<nativeVars, noTransactionOperationQueue, sqliteVars, worker>>
         /\ \/ tasks' = tasks
            \/ \E e \in Call : /\ tasks' = Append(tasks, e)
                               /\ e.tid \in {NoTransaction, ForceId, held[c]}
         /\ \A d \in Clients : held'[d] \in {held[d], NoTransaction}
<1>1. ASSUME NEW kind \in Kinds, NEW tid \in {NoTransaction, ForceId, held[c]},
             kind = "begin" => tid = NoTransaction, Invoke(c, kind, tid)
      PROVE  /\ \E e \in Call : /\ tasks' = Append(tasks, e)
                                /\ e.tid \in {NoTransaction, ForceId, held[c]}
             /\ held' = held
  <2>1. tid \in Nat \cup {ForceId}
    BY DEF TypeOK, NoTransaction
  <2>2. [kind |-> kind, client |-> c, epoch |-> epoch[c], tid |-> tid] \in Call
    BY <1>1, <2>1 DEF Call, TypeOK
  <2>. QED
    BY <1>1, <2>2 DEF Invoke
<1>2. CASE Reopen(c) \/ HotRestart(c)
  BY <1>2 DEF Reopen, HotRestart, TypeOK
<1>3. CASE ~(Reopen(c) \/ HotRestart(c))
  <2>1. PICK kind \in Kinds, tid \in {NoTransaction, ForceId, held[c]} :
          Invoke(c, kind, tid) /\ (kind = "begin" => tid = NoTransaction)
    BY <1>3, ConstantsAssumption DEF Client, RollbackRecovered, BeginTransaction,
       CallOnDatabase, CallOnTransaction, EndTransaction, Kinds
  <2>. QED
    BY <1>1, <2>1, ClientPosts
<1>. QED
  BY <1>2, <1>3, ClientPosts

LEMMA ParkedStep ==
  ASSUME TypeOK, ParkedInvariant, [Next]_vars
  PROVE  ParkedInvariant'
<1>0. TypeOK' /\ tasks \in Seq(Call \cup {RunQueued}) /\ noTransactionOperationQueue \in Seq(Call)
  BY NextTyped DEF TypeOK
<1>1. ASSUME NEW k, NextTask(k)
      PROVE  /\ Calls(tasks)' \subseteq Calls(tasks)
             /\ k.kind \in Kinds => k \in Call /\ k \in Calls(tasks)
  BY <1>0, <1>1, CallsOfTail, HeadTailTyped, TaskIsCall DEF NextTask
<1>2. CASE RunOutsideTransaction \/ RunInTransaction \/ RunBatch
  <2>1. /\ NextTask(Head(tasks)) /\ Head(tasks).kind \in Kinds /\ Run(Head(tasks))
        /\ noTransactionOperationQueue' = noTransactionOperationQueue
    BY <1>2 DEF RunOutsideTransaction, RunInTransaction, RunBatch, Kinds
  <2>2. InFlight' \subseteq InFlight /\ Head(tasks) \in Call
    BY <1>1, <2>1 DEF InFlight
  <2>. QED
    BY <1>0, <2>1, <2>2, RunKeepsParked
<1>3. CASE QueueForLater
  <2>. DEFINE k == Head(tasks)
  <2>1. /\ k \in Call /\ k \in Calls(tasks) /\ Calls(tasks)' \subseteq Calls(tasks)
        /\ k.tid # currentTransactionId /\ k.tid # ForceId
    BY <1>1, <1>3 DEF QueueForLater, Admitted
  <2>2. Calls(noTransactionOperationQueue)' \subseteq
          Calls(noTransactionOperationQueue) \cup {k}
    <3>1. noTransactionOperationQueue' = Append(noTransactionOperationQueue, k)
      BY <1>3 DEF QueueForLater
    <3>. QED
      BY <1>0, <2>1, <3>1, CallsOfAppend
  <2>. HIDE DEF k
  <2>3. UNCHANGED <<nativeVars, held>>
    BY <1>3 DEF QueueForLater, clientVars
  <2>. QED
    BY <2>1, <2>2, <2>3 DEF InFlight, ParkedInvariant, nativeVars
<1>4. CASE PostRunQueued
  <2>1. Calls(tasks)' \subseteq Calls(tasks)
    <3>1. tasks' = Append(tasks, RunQueued) /\ RunQueued \notin Call
      BY <1>4 DEF PostRunQueued, RunQueued, Call, Kinds
    <3>. QED
      BY <1>0, <3>1, CallsOfAppend
  <2>. QED
    BY <1>4, <2>1 DEF PostRunQueued, InFlight, ParkedInvariant, nativeVars, clientVars
<1>5. CASE StartRunQueued
  BY <1>1, <1>5 DEF StartRunQueued, InFlight, ParkedInvariant, nativeVars, clientVars
<1>6. CASE RunQueuedOperation
  <2>. DEFINE k == Head(noTransactionOperationQueue)
  <2>1. /\ k \in Call
        /\ Calls(noTransactionOperationQueue)' \subseteq Calls(noTransactionOperationQueue)
    BY <1>0, <1>6, CallsOfTail, HeadTailTyped DEF RunQueuedOperation
  <2>2. Run(k) /\ tasks' = tasks
    BY <1>6 DEF RunQueuedOperation
  <2>. HIDE DEF k
  <2>3. InFlight' \subseteq InFlight
    BY <2>1, <2>2 DEF InFlight
  <2>. QED
    BY <1>0, <2>1, <2>2, <2>3, RunKeepsParked
<1>7. CASE StopRunQueued
  BY <1>7 DEF StopRunQueued, InFlight, ParkedInvariant, nativeVars, clientVars
<1>8. ASSUME NEW c \in Clients, Client(c) PROVE ParkedInvariant'
  <2>1. /\ UNCHANGED <<nativeVars, noTransactionOperationQueue>>
        /\ \/ tasks' = tasks
           \/ \E e \in Call : /\ tasks' = Append(tasks, e)
                              /\ e.tid \in {NoTransaction, ForceId, held[c]}
        /\ \A d \in Clients : held'[d] \in {held[d], NoTransaction}
    BY <1>8, ClientSends
  <2>2. /\ NoTransaction <= lastTransactionId /\ ForceId <= lastTransactionId
        /\ held[c] <= lastTransactionId
    BY DEF TypeOK, NoTransaction, ForceId, ParkedInvariant
  <2>3. \A x \in Calls(tasks)' : x \in Calls(tasks) \/ x.tid <= lastTransactionId
    <3>1. CASE tasks' = tasks
      BY <3>1
    <3>2. ASSUME NEW e \in Call, tasks' = Append(tasks, e),
                 e.tid \in {NoTransaction, ForceId, held[c]}
          PROVE  \A x \in Calls(tasks)' : x \in Calls(tasks) \/ x.tid <= lastTransactionId
      BY <1>0, <2>2, <3>2, CallsOfAppend
    <3>. QED
      BY <2>1, <3>1, <3>2
  <2>. QED
    BY <2>1, <2>2, <2>3 DEF InFlight, ParkedInvariant, nativeVars
<1>9. CASE UNCHANGED vars
  BY <1>9 DEF vars, InFlight, ParkedInvariant, nativeVars, clientVars
<1>. QED
  BY <1>2, <1>3, <1>4, <1>5, <1>6, <1>7, <1>8, <1>9 DEF Next, Worker

(* A call of the active transaction is never parked behind it, nor a       *)
(* forced ROLLBACK, also when calls that were parked come to run in an     *)
(* order of their own and begin transactions meanwhile.                    *)
THEOREM NeverParkedBehindItself == Spec => []NoSelfDeadlock
<1>1. Init => ParkedInvariant
  <2>. SUFFICES ASSUME Init PROVE ParkedInvariant
    OBVIOUS
  <2>1. InFlight = {} /\ Calls(noTransactionOperationQueue) = {}
    BY DEF Init, InFlight, Calls
  <2>. QED
    BY <2>1 DEF Init, ParkedInvariant, NoTransaction
<1>2. TypeOK /\ ParkedInvariant => NoSelfDeadlock
  <2>. SUFFICES ASSUME TypeOK, ParkedInvariant, currentTransactionId # NoTransaction,
                       NEW i \in DOMAIN noTransactionOperationQueue
                PROVE  noTransactionOperationQueue[i].tid
                         \notin {currentTransactionId, ForceId}
    BY DEF NoSelfDeadlock
  <2>1. noTransactionOperationQueue[i] \in Call
    BY ElementOfSeq, LenProperties DEF TypeOK
  <2>. QED
    BY <2>1 DEF ParkedInvariant, Calls
<1>. QED
  BY <1>1, <1>2, ParkedStep, TypeCorrect, PTL DEF Spec
-----------------------------------------------------------------------------
(* Atomicity and isolation, for the use and the faults the code answers    *)
(* for: SQLite does not end a transaction by itself, nobody rolls back the *)
(* transaction of another isolate, and batches are sent in transactions.   *)
SafeUse ==
  /\ "autoRollback" \notin Faults
  /\ RollbackActiveTransactionOnOpen = FALSE
  /\ "batch" \notin PlainCalls

(* Two calls one isolate sent between two restarts. *)
SameSender(k, l) == k.client = l.client /\ k.epoch = l.epoch

OneEach(s) ==
  \A i, j \in DOMAIN s :
    s[i] \in Call /\ s[j] \in Call /\ SameSender(s[i], s[j]) => i = j

(* An isolate has one call in flight, and waits for it. *)
OneCallEach ==
  /\ OneEach(tasks) /\ OneEach(noTransactionOperationQueue)
  /\ \A k \in Calls(tasks), l \in Calls(noTransactionOperationQueue) : ~SameSender(k, l)

Awaited ==
  \A k \in InFlight :
    /\ k.epoch <= epoch[k.client]
    /\ k.epoch = epoch[k.client] => waiting[k.client] /\ k.tid = held[k.client]

(* Who holds an id holds the current one, and is alone; calls that have an *)
(* id have the current one, and all of them come from who holds or held it. *)
Owned ==
  /\ \A c \in Clients : held[c] \in {NoTransaction, currentTransactionId}
  /\ \A c, d \in Clients : held[c] # NoTransaction /\ held[d] # NoTransaction => c = d
  /\ \A k \in InFlight :
       /\ k.tid \in {NoTransaction, currentTransactionId}
       /\ k.kind \in {"batch", "commit", "rollback"} => k.tid # NoTransaction
       /\ k.tid # NoTransaction =>
            /\ \A l \in InFlight : l.tid # NoTransaction => SameSender(k, l)
            /\ \A c \in Clients : held[c] # NoTransaction =>
                 c = k.client /\ epoch[c] = k.epoch
  /\ \A c \in Clients : phase[c] # "recovered"

(* SQLite is in the current transaction, and has only its writes pending. *)
Stored ==
  /\ openTx <=> currentTransactionId # NoTransaction
  /\ writes \subseteq {currentTransactionId}
  /\ ~openTx => writes = {}
  /\ \A id \in durable : id <= lastTransactionId
  /\ AllOrNothing

ProtocolInvariant == OneCallEach /\ Awaited /\ Owned /\ Stored
-----------------------------------------------------------------------------
(* How queues keep OneEach. *)
LEMMA OneEachTail ==
  ASSUME NEW S, NEW s \in Seq(S), s # <<>>, OneEach(s)
  PROVE  /\ OneEach(Tail(s))
         /\ Head(s) \in Call => \A x \in Calls(Tail(s)) : ~SameSender(x, Head(s))
<1>1. /\ 1 \in DOMAIN s /\ Head(s) = s[1]
      /\ \A i \in DOMAIN Tail(s) : /\ i + 1 \in DOMAIN s /\ i + 1 # 1
                                   /\ Tail(s)[i] = s[i + 1]
  BY TailFacts
<1>2. \A i \in DOMAIN Tail(s) : i \in Nat
  BY HeadTailProperties, LenProperties
<1>3. OneEach(Tail(s))
  <2>. SUFFICES ASSUME NEW i \in DOMAIN Tail(s), NEW j \in DOMAIN Tail(s),
                       Tail(s)[i] \in Call, Tail(s)[j] \in Call,
                       SameSender(Tail(s)[i], Tail(s)[j])
                PROVE  i = j
    BY DEF OneEach
  <2>1. i + 1 = j + 1
    BY <1>1 DEF OneEach
  <2>. QED
    BY <1>2, <2>1
<1>4. ASSUME Head(s) \in Call, NEW x \in Calls(Tail(s)) PROVE ~SameSender(x, Head(s))
  <2>1. PICK i \in DOMAIN Tail(s) : x = Tail(s)[i] /\ x \in Call
    BY DEF Calls
  <2>. QED
    BY <1>1, <1>4, <2>1 DEF OneEach
<1>. QED
  BY <1>3, <1>4

LEMMA OneEachAppend ==
  ASSUME NEW S, NEW s \in Seq(S), NEW e \in S, OneEach(s),
         e \in Call => \A x \in Calls(s) : ~SameSender(x, e)
  PROVE  OneEach(Append(s, e))
<1>. SUFFICES ASSUME NEW i \in DOMAIN Append(s, e), NEW j \in DOMAIN Append(s, e),
                     Append(s, e)[i] \in Call, Append(s, e)[j] \in Call,
                     SameSender(Append(s, e)[i], Append(s, e)[j])
              PROVE  i = j
  BY DEF OneEach
<1>1. \A n \in DOMAIN s : s[n] \in Call => s[n] \in Calls(s)
  BY DEF Calls
<1>. QED
  BY <1>1, AppendFacts DEF OneEach, SameSender

(* A call taken from the tasks or from the queue: those that stay in       *)
(* flight are of other senders.                                            *)
LEMMA TaskTaken ==
  ASSUME TypeOK, OneCallEach, NEW k, NextTask(k),
         UNCHANGED noTransactionOperationQueue
  PROVE  /\ OneCallEach' /\ InFlight' \subseteq InFlight
         /\ k \in Call => k \in InFlight /\ \A x \in InFlight' : ~SameSender(x, k)
<1>1. tasks \in Seq(Call \cup {RunQueued}) /\ tasks # <<>> /\ k = Head(tasks)
      /\ tasks' = Tail(tasks)
  BY DEF TypeOK, NextTask
<1>2. /\ Calls(tasks)' \subseteq Calls(tasks)
      /\ k \in Call => k \in Calls(tasks)
      /\ Calls(noTransactionOperationQueue)' = Calls(noTransactionOperationQueue)
  BY <1>1, CallsOfTail
<1>3. /\ OneEach(tasks)'
      /\ k \in Call => \A x \in Calls(tasks)' : ~SameSender(x, k)
  BY <1>1, OneEachTail DEF OneCallEach
<1>. QED
  BY <1>2, <1>3 DEF OneCallEach, InFlight, SameSender

LEMMA QueuedTaken ==
  ASSUME TypeOK, OneCallEach, noTransactionOperationQueue # <<>>,
         noTransactionOperationQueue' = Tail(noTransactionOperationQueue),
         UNCHANGED tasks
  PROVE  /\ OneCallEach' /\ InFlight' \subseteq InFlight
         /\ Head(noTransactionOperationQueue) \in InFlight
         /\ \A x \in InFlight' : ~SameSender(x, Head(noTransactionOperationQueue))
<1>. DEFINE q == noTransactionOperationQueue
<1>1. q \in Seq(Call) /\ Head(q) \in Call
  BY HeadTailTyped DEF TypeOK
<1>2. /\ Calls(q)' \subseteq Calls(q) /\ Head(q) \in Calls(q)
      /\ Calls(tasks)' = Calls(tasks)
  BY <1>1, CallsOfTail
<1>3. OneEach(q)' /\ \A x \in Calls(q)' : ~SameSender(x, Head(q))
  BY <1>1, OneEachTail DEF OneCallEach
<1>. QED
  BY <1>2, <1>3 DEF OneCallEach, InFlight, SameSender

(* A call sent by an isolate that awaits none. *)
LEMMA CallPosted ==
  ASSUME TypeOK, OneCallEach, NEW e \in Call \cup {RunQueued},
         e \in Call => \A x \in InFlight : ~SameSender(x, e),
         tasks' = Append(tasks, e), UNCHANGED noTransactionOperationQueue
  PROVE  OneCallEach' /\ InFlight' \subseteq InFlight \cup ({e} \cap Call)
<1>1. tasks \in Seq(Call \cup {RunQueued})
  BY DEF TypeOK
<1>2. /\ Calls(tasks)' \subseteq Calls(tasks) \cup ({e} \cap Call)
      /\ Calls(noTransactionOperationQueue)' = Calls(noTransactionOperationQueue)
  BY <1>1, CallsOfAppend
<1>3. OneEach(tasks)'
  BY <1>1, OneEachAppend DEF OneCallEach, InFlight
<1>. QED
  BY <1>2, <1>3 DEF OneCallEach, InFlight, SameSender
-----------------------------------------------------------------------------
(* Running a call. *)

(* The isolates after a call has been answered. *)
LEMMA ReplyKeeps ==
  ASSUME TypeOK, Awaited, NEW k \in Call, NEW t \in Nat, Reply(k, t),
         InFlight' \subseteq InFlight, \A x \in InFlight' : ~SameSender(x, k)
  PROVE  /\ Awaited'
         /\ epoch' = epoch
         /\ \A c \in Clients :
              held'[c] = IF c = k.client /\ epoch[c] = k.epoch THEN t ELSE held[c]
         /\ \A c \in Clients : phase'[c] = phase[c] \/ phase'[c] = "open"
<1>1. k.client \in Clients /\ held \in [Clients -> Nat] /\ waiting \in [Clients -> BOOLEAN]
      /\ phase \in [Clients -> {"closed", "recovered", "open"}]
  BY DEF Call, TypeOK
<1>2. /\ epoch' = epoch
      /\ \A c \in Clients :
           held'[c] = IF c = k.client /\ epoch[c] = k.epoch THEN t ELSE held[c]
      /\ \A c \in Clients : phase'[c] = phase[c] \/ phase'[c] = "open"
      /\ \A c \in Clients : ~(c = k.client /\ epoch[c] = k.epoch) =>
           waiting'[c] = waiting[c]
  BY <1>1 DEF Reply
<1>3. Awaited'
  <2>. SUFFICES ASSUME NEW x \in InFlight', x.epoch = epoch'[x.client]
                PROVE  waiting'[x.client] /\ x.tid = held'[x.client]
    BY <1>2 DEF Awaited
  <2>1. x.client \in Clients
    BY DEF InFlight, Calls, Call
  <2>2. ~(x.client = k.client /\ epoch[x.client] = k.epoch)
    BY <1>2 DEF SameSender
  <2>. QED
    BY <1>2, <2>1, <2>2 DEF Awaited
<1>. QED
  BY <1>2, <1>3

(* What the calls do to the store. *)
StoreStep == [Store!Next]_Store!vars

LEMMA BeginKeeps ==
  ASSUME TypeOK, ProtocolInvariant, ParkedInvariant, NEW k \in InFlight, DoBegin(k),
         currentTransactionId = NoTransaction, InFlight' \subseteq InFlight,
         \A x \in InFlight' : ~SameSender(x, k)
  PROVE  Awaited' /\ Owned' /\ Stored' /\ StoreStep
<1>0. /\ k \in Call /\ lastTransactionId \in Nat /\ NoTransaction = 0
      /\ held \in [Clients -> Nat] /\ ~openTx /\ writes = {}
      /\ durable \subseteq Nat \cup {ForceId}
  BY DEF InFlight, Calls, NoTransaction, TypeOK, ProtocolInvariant, Stored
<1>1. PICK t \in {NoTransaction, lastTransactionId + 1} :
        /\ Reply(k, t) /\ currentTransactionId' = t
        /\ openTx' = (t # NoTransaction)
        /\ lastTransactionId' = lastTransactionId + 1
        /\ UNCHANGED <<writes, durable, committed>>
  <2>1. lastTransactionId + 1 # NoTransaction
    BY <1>0
  <2>2. CASE openTx' = TRUE /\ currentTransactionId' = lastTransactionId + 1
    BY <1>0, <2>1, <2>2 DEF DoBegin, NoTransaction, sqliteVars
  <2>3. CASE currentTransactionId' = NoTransaction /\ UNCHANGED sqliteVars
    <3>1. openTx' = FALSE
      BY <1>0, <2>3 DEF TypeOK, sqliteVars
    <3>. QED
      BY <1>0, <2>1, <2>3, <3>1 DEF DoBegin, sqliteVars
  <2>. QED
    BY <2>2, <2>3 DEF DoBegin
<1>2. /\ Awaited' /\ epoch' = epoch
      /\ \A c \in Clients :
           held'[c] = IF c = k.client /\ epoch[c] = k.epoch THEN t ELSE held[c]
      /\ \A c \in Clients : phase'[c] = phase[c] \/ phase'[c] = "open"
  BY <1>0, <1>1, ReplyKeeps DEF ProtocolInvariant
<1>3. /\ \A c \in Clients : held[c] = NoTransaction
      /\ \A x \in InFlight : x.tid = NoTransaction
  BY DEF ProtocolInvariant, Owned
<1>4. Owned'
  BY <1>1, <1>2, <1>3 DEF ProtocolInvariant, Owned
<1>5. Stored'
  <2>1. \A id \in durable : id <= lastTransactionId + 1
    BY <1>0 DEF ProtocolInvariant, Stored, ForceId
  <2>. QED
    BY <1>0, <1>1, <2>1 DEF ProtocolInvariant, Stored, AllOrNothing
<1>6. StoreStep
  <2>1. CASE t = NoTransaction
    BY <1>0, <1>1, <2>1 DEF StoreStep, Store!vars
  <2>2. CASE t = lastTransactionId + 1
    <3>1. t \in Ids /\ t \notin durable /\ t # NoTransaction
      BY <1>0, <2>2 DEF Ids, ProtocolInvariant, Stored, ForceId
    <3>. QED
      BY <1>0, <1>1, <3>1 DEF StoreStep, Store!Next, Store!Begin
  <2>. QED
    BY <2>1, <2>2
<1>. QED
  BY <1>2, <1>4, <1>5, <1>6

LEMMA StatementKeeps ==
  ASSUME TypeOK, SafeUse, ProtocolInvariant, NEW k \in InFlight, DoStatement(k),
         k.tid = currentTransactionId,
         InFlight' \subseteq InFlight, \A x \in InFlight' : ~SameSender(x, k)
  PROVE  Awaited' /\ Owned' /\ Stored' /\ StoreStep
<1>0. /\ k \in Call /\ k.client \in Clients /\ held \in [Clients -> Nat]
      /\ lastTransactionId \in Nat /\ currentTransactionId \in Nat /\ NoTransaction = 0
  BY DEF InFlight, Calls, Call, TypeOK, NoTransaction
<1>1. /\ Write(k.tid) \/ UNCHANGED sqliteVars
      /\ Reply(k, held[k.client]) /\ UNCHANGED nativeVars
  BY DEF DoStatement, AutoRollback, SafeUse
<1>2. /\ Awaited' /\ epoch' = epoch
      /\ \A c \in Clients :
           held'[c] = IF c = k.client /\ epoch[c] = k.epoch THEN held[k.client] ELSE held[c]
      /\ \A c \in Clients : phase'[c] = phase[c] \/ phase'[c] = "open"
  BY <1>0, <1>1, ReplyKeeps DEF ProtocolInvariant
<1>3. \A c \in Clients : held'[c] = held[c]
  BY <1>2
<1>4. Owned'
  BY <1>1, <1>2, <1>3 DEF ProtocolInvariant, Owned, nativeVars
<1>5. CASE UNCHANGED sqliteVars
  BY <1>1, <1>2, <1>4, <1>5 DEF ProtocolInvariant, Stored, AllOrNothing, StoreStep,
     Store!vars, sqliteVars, nativeVars
<1>6. CASE openTx /\ Write(k.tid)
  <2>1. /\ writes' = writes \cup {currentTransactionId}
        /\ UNCHANGED <<openTx, durable, committed, nativeVars>>
        /\ currentTransactionId # NoTransaction
    BY <1>1, <1>6 DEF Write, ProtocolInvariant, Stored
  <2>2. writes' = {currentTransactionId}
    BY <2>1 DEF ProtocolInvariant, Stored
  <2>3. Stored'
    BY <1>6, <2>1, <2>2 DEF ProtocolInvariant, Stored, AllOrNothing, nativeVars
  <2>4. StoreStep
    BY <1>6, <2>1, <2>2 DEF StoreStep, Store!Next, Store!WriteInTransaction, nativeVars
  <2>. QED
    BY <1>2, <1>4, <2>3, <2>4
<1>7. CASE ~openTx /\ Write(k.tid)
  <2>1. /\ k.tid = NoTransaction /\ durable' = durable \cup {NoTransaction}
        /\ UNCHANGED <<openTx, writes, committed, nativeVars>>
    BY <1>1, <1>7 DEF Write, ProtocolInvariant, Stored
  <2>2. Stored'
    <3>1. NoTransaction <= lastTransactionId
      BY <1>0
    <3>2. /\ \A id \in durable' : id <= lastTransactionId'
          /\ durable' \subseteq committed' \cup {NoTransaction}
      BY <2>1, <3>1 DEF ProtocolInvariant, Stored, AllOrNothing, nativeVars
    <3>. QED
      BY <2>1, <3>2 DEF ProtocolInvariant, Stored, AllOrNothing, nativeVars
  <2>3. StoreStep
    BY <1>7, <2>1 DEF StoreStep, Store!Next, Store!WriteOutside, nativeVars
  <2>. QED
    BY <1>2, <1>4, <2>2, <2>3
<1>. QED
  BY <1>1, <1>5, <1>6, <1>7 DEF ProtocolInvariant, Stored

LEMMA EndKeeps ==
  ASSUME TypeOK, ProtocolInvariant, ParkedInvariant, NEW k \in InFlight,
         DoCommit(k) \/ DoRollback(k),
         InFlight' \subseteq InFlight, \A x \in InFlight' : ~SameSender(x, k)
  PROVE  Awaited' /\ Owned' /\ Stored' /\ StoreStep
<1>0. /\ k \in Call /\ lastTransactionId \in Nat /\ NoTransaction \in Nat
      /\ k.tid = currentTransactionId /\ k.tid # NoTransaction /\ openTx
  BY DEF InFlight, Calls, TypeOK, NoTransaction, ProtocolInvariant, Owned, Stored,
     DoCommit, DoRollback
<1>1. Reply(k, NoTransaction)
  BY DEF DoCommit, DoRollback
<1>2. /\ Awaited' /\ epoch' = epoch
      /\ \A c \in Clients :
           held'[c] = IF c = k.client /\ epoch[c] = k.epoch THEN NoTransaction ELSE held[c]
      /\ \A c \in Clients : phase'[c] = phase[c] \/ phase'[c] = "open"
  BY <1>0, <1>1, ReplyKeeps DEF ProtocolInvariant
<1>3. \A c \in Clients : held'[c] = NoTransaction
  BY <1>0, <1>2 DEF ProtocolInvariant, Owned
<1>4. \A x \in InFlight' : x.tid = NoTransaction
  BY <1>0 DEF ProtocolInvariant, Owned, SameSender
<1>5. Owned'
  BY <1>2, <1>3, <1>4 DEF ProtocolInvariant, Owned
<1>6. CASE UNCHANGED <<nativeVars, sqliteVars>>
  BY <1>2, <1>5, <1>6 DEF ProtocolInvariant, Stored, AllOrNothing, StoreStep,
     Store!vars, sqliteVars, nativeVars
<1>7. CASE ~UNCHANGED <<nativeVars, sqliteVars>>
  <2>1. /\ LeaveTransaction
        /\ \/ durable' = durable \cup writes /\ committed' = committed \cup {k.tid}
           \/ UNCHANGED <<durable, committed>>
    BY <1>7 DEF DoCommit, DoRollback
  <2>2. /\ openTx' = FALSE /\ writes' = {} /\ currentTransactionId' = NoTransaction
        /\ lastTransactionId' = lastTransactionId
    BY <2>1 DEF LeaveTransaction
  <2>3. \A id \in writes : id <= lastTransactionId
    BY DEF ProtocolInvariant, Stored, ParkedInvariant
  <2>4. Stored'
    BY <1>0, <2>1, <2>2, <2>3 DEF ProtocolInvariant, Stored, AllOrNothing
  <2>5. StoreStep
    BY <1>0, <2>1, <2>2 DEF StoreStep, Store!Next, Store!Commit, Store!Rollback
  <2>. QED
    BY <1>2, <1>5, <2>4, <2>5
<1>. QED
  BY <1>6, <1>7

(* A call that is let through. *)
LEMMA RunKeepsProtocol ==
  ASSUME TypeOK, SafeUse, ProtocolInvariant, ParkedInvariant, NEW k \in InFlight, Run(k),
         \/ currentTransactionId = NoTransaction
         \/ Admitted(k)
         \/ k.kind = "batch",
         InFlight' \subseteq InFlight, \A x \in InFlight' : ~SameSender(x, k)
  PROVE  Awaited' /\ Owned' /\ Stored' /\ StoreStep
<1>1. /\ k.tid \in {NoTransaction, currentTransactionId}
      /\ k.kind = "batch" => k.tid # NoTransaction
      /\ k.kind = "begin" => k.tid = NoTransaction
      /\ currentTransactionId \in Nat /\ NoTransaction \in Nat /\ ForceId \notin Nat
  BY DEF ProtocolInvariant, Owned, InFlight, Calls, Call, TypeOK, NoTransaction, ForceId
<1>2. k.tid = currentTransactionId
  BY <1>1 DEF Admitted
<1>3. CASE DoBegin(k)
  BY <1>1, <1>2, <1>3, BeginKeeps DEF DoBegin
<1>4. CASE DoStatement(k)
  BY <1>2, <1>4, StatementKeeps
<1>5. CASE DoCommit(k) \/ DoRollback(k)
  BY <1>5, EndKeeps
<1>. QED
  BY <1>3, <1>4, <1>5 DEF Run
-----------------------------------------------------------------------------
(* The other steps leave the store alone. *)
LEMMA StoreUnchanged ==
  ASSUME Stored, UNCHANGED <<nativeVars, sqliteVars>>
  PROVE  Stored' /\ StoreStep
BY DEF Stored, AllOrNothing, StoreStep, Store!vars, nativeVars, sqliteVars

(* A step of the worker that answers no call. *)
LEMMA WorkerKeepsProtocol ==
  ASSUME ProtocolInvariant, InFlight' \subseteq InFlight, OneCallEach',
         UNCHANGED <<nativeVars, sqliteVars, clientVars>>
  PROVE  ProtocolInvariant' /\ StoreStep
<1>1. Stored' /\ StoreStep
  BY StoreUnchanged DEF ProtocolInvariant
<1>2. Awaited'
  BY DEF ProtocolInvariant, Awaited, clientVars
<1>3. Owned'
  BY DEF ProtocolInvariant, Owned, clientVars, nativeVars
<1>. QED
  BY <1>1, <1>2, <1>3 DEF ProtocolInvariant

LEMMA InvokeKeepsProtocol ==
  ASSUME TypeOK, ProtocolInvariant, NEW c \in Clients, NEW kind \in Kinds,
         Invoke(c, kind, held[c]), kind = "begin" => held[c] = NoTransaction,
         kind \in {"batch", "commit", "rollback"} => held[c] # NoTransaction
  PROVE  ProtocolInvariant' /\ StoreStep
<1>. DEFINE e == [kind |-> kind, client |-> c, epoch |-> epoch[c], tid |-> held[c]]
<1>1. /\ e \in Call /\ e.client = c /\ e.epoch = epoch[c] /\ e.tid = held[c]
      /\ e.kind = kind
  BY DEF Call, TypeOK
<1>2. /\ ~waiting[c] /\ waiting' = [waiting EXCEPT ![c] = TRUE]
      /\ tasks' = Append(tasks, e)
      /\ UNCHANGED <<worker, noTransactionOperationQueue, nativeVars, sqliteVars,
                     phase, held, epoch>>
  BY DEF Invoke
<1>. HIDE DEF e
<1>3. \A x \in InFlight : ~SameSender(x, e)
  BY <1>1, <1>2 DEF ProtocolInvariant, Awaited, SameSender
<1>4. OneCallEach' /\ InFlight' \subseteq InFlight \cup {e}
  BY <1>1, <1>2, <1>3, CallPosted DEF ProtocolInvariant
<1>5. Stored' /\ StoreStep
  BY <1>2, StoreUnchanged DEF ProtocolInvariant
<1>6. Awaited'
  <2>. SUFFICES ASSUME NEW x \in InFlight'
                PROVE  /\ x.epoch <= epoch[x.client]
                       /\ x.epoch = epoch[x.client] =>
                            waiting'[x.client] /\ x.tid = held[x.client]
    BY <1>2 DEF Awaited
  <2>1. CASE x \in InFlight
    <3>1. x.client \in Clients
      BY <2>1 DEF InFlight, Calls, Call
    <3>. QED
      BY <1>2, <2>1, <3>1 DEF ProtocolInvariant, Awaited, TypeOK
  <2>2. CASE x = e
    <3>1. epoch[c] \in Nat /\ waiting'[c]
      BY <1>2 DEF TypeOK
    <3>. QED
      BY <1>1, <2>2, <3>1
  <2>. QED
    BY <1>4, <2>1, <2>2
<1>7. Owned'
  <2>1. held[c] # NoTransaction => \A x \in InFlight : x.tid = NoTransaction
    <3>. SUFFICES ASSUME held[c] # NoTransaction, NEW x \in InFlight,
                         x.tid # NoTransaction
                  PROVE  FALSE
      OBVIOUS
    <3>1. c = x.client /\ epoch[c] = x.epoch
      BY DEF ProtocolInvariant, Owned
    <3>. QED
      BY <1>1, <1>3, <3>1 DEF SameSender
  <2>2. \A x \in InFlight' :
          /\ x.tid \in {NoTransaction, currentTransactionId}
          /\ x.kind \in {"batch", "commit", "rollback"} => x.tid # NoTransaction
    BY <1>1, <1>4 DEF ProtocolInvariant, Owned
  <2>3. ASSUME NEW x \in InFlight', NEW l \in InFlight', x.tid # NoTransaction,
               l.tid # NoTransaction
        PROVE  SameSender(x, l)
    BY <1>1, <1>4, <2>1, <2>3 DEF ProtocolInvariant, Owned, SameSender
  <2>4. ASSUME NEW x \in InFlight', NEW d \in Clients, x.tid # NoTransaction,
               held[d] # NoTransaction
        PROVE  d = x.client /\ epoch[d] = x.epoch
    <3>1. CASE x \in InFlight
      BY <2>4, <3>1 DEF ProtocolInvariant, Owned
    <3>2. CASE x = e
      <4>1. held[c] # NoTransaction
        BY <1>1, <2>4, <3>2
      <4>2. d = c
        BY <2>4, <4>1 DEF ProtocolInvariant, Owned
      <4>. QED
        BY <1>1, <3>2, <4>2
    <3>. QED
      BY <1>4, <3>1, <3>2
  <2>. QED
    BY <1>2, <2>2, <2>3, <2>4 DEF ProtocolInvariant, Owned, nativeVars
<1>. QED
  BY <1>4, <1>5, <1>6, <1>7 DEF ProtocolInvariant

LEMMA RestartKeepsProtocol ==
  ASSUME TypeOK, ProtocolInvariant, NEW c \in Clients, Reopen(c) \/ HotRestart(c), SafeUse
  PROVE  ProtocolInvariant' /\ StoreStep
<1>1. /\ UNCHANGED <<tasks, noTransactionOperationQueue>>
      /\ UNCHANGED <<nativeVars, sqliteVars>>
  BY DEF Reopen, HotRestart
<1>2. InFlight' = InFlight /\ OneCallEach'
  BY <1>1 DEF InFlight, ProtocolInvariant, OneCallEach
<1>3. Stored' /\ StoreStep
  BY <1>1, StoreUnchanged DEF ProtocolInvariant
<1>4. CASE Reopen(c)
  <2>1. \A d \in Clients : phase'[d] # "recovered"
    BY <1>4 DEF Reopen, SafeUse, ProtocolInvariant, Owned, TypeOK
  <2>2. UNCHANGED <<held, waiting, epoch>>
    BY <1>4 DEF Reopen
  <2>3. Awaited'
    BY <1>2, <2>2 DEF ProtocolInvariant, Awaited
  <2>4. Owned'
    BY <1>1, <1>2, <2>1, <2>2 DEF ProtocolInvariant, Owned, nativeVars
  <2>. QED
    BY <1>2, <1>3, <2>3, <2>4 DEF ProtocolInvariant
<1>5. CASE HotRestart(c)
  <2>1. /\ epoch' = [epoch EXCEPT ![c] = @ + 1]
        /\ phase' = [phase EXCEPT ![c] = "closed"]
        /\ held' = [held EXCEPT ![c] = NoTransaction]
        /\ waiting' = [waiting EXCEPT ![c] = FALSE]
    BY <1>5 DEF HotRestart
  <2>2. /\ \A d \in Clients : /\ epoch'[d] = IF d = c THEN epoch[d] + 1 ELSE epoch[d]
                              /\ held'[d] = IF d = c THEN NoTransaction ELSE held[d]
                              /\ waiting'[d] = IF d = c THEN FALSE ELSE waiting[d]
                              /\ phase'[d] # "recovered"
                              /\ epoch[d] \in Nat
    BY <2>1 DEF TypeOK, ProtocolInvariant, Owned
  <2>3. Awaited'
    <3>. SUFFICES ASSUME NEW x \in InFlight
                  PROVE  /\ x.epoch <= epoch'[x.client]
                         /\ x.epoch = epoch'[x.client] =>
                              waiting'[x.client] /\ x.tid = held'[x.client]
      BY <1>2 DEF Awaited
    <3>1. x.client \in Clients /\ x.epoch \in Nat
      BY DEF InFlight, Calls, Call
    <3>2. /\ x.epoch <= epoch[x.client] /\ epoch[x.client] \in Nat
          /\ x.epoch = epoch[x.client] =>
               waiting[x.client] /\ x.tid = held[x.client]
      BY <2>2, <3>1 DEF ProtocolInvariant, Awaited
    <3>3. CASE x.client = c
      <4>1. epoch'[x.client] = epoch[x.client] + 1
        BY <2>2, <3>1, <3>3
      <4>2. x.epoch < epoch[x.client] + 1
        BY <3>1, <3>2
      <4>. QED
        BY <3>1, <3>2, <4>1, <4>2
    <3>4. CASE x.client # c
      <4>1. /\ epoch'[x.client] = epoch[x.client] /\ held'[x.client] = held[x.client]
            /\ waiting'[x.client] = waiting[x.client]
        BY <2>2, <3>1, <3>4
      <4>. QED
        BY <3>2, <4>1
    <3>. QED
      BY <3>3, <3>4
  <2>4. Owned'
    <3>1. /\ \A d \in Clients : held'[d] # NoTransaction =>
                held'[d] = held[d] /\ epoch'[d] = epoch[d]
          /\ \A d \in Clients : held'[d] \in {held[d], NoTransaction}
          /\ \A d \in Clients : phase'[d] # "recovered"
          /\ currentTransactionId' = currentTransactionId
      BY <1>1, <2>2 DEF nativeVars
    <3>. QED
      BY <1>2, <3>1 DEF ProtocolInvariant, Owned
  <2>. QED
    BY <1>2, <1>3, <2>3, <2>4 DEF ProtocolInvariant
<1>. QED
  BY <1>4, <1>5

(* Every step keeps the invariant and is one of the store, or none. *)
LEMMA ProtocolStep ==
  ASSUME TypeOK, SafeUse, ParkedInvariant, ProtocolInvariant, [Next]_vars
  PROVE  ProtocolInvariant' /\ StoreStep
<1>0. /\ tasks \in Seq(Call \cup {RunQueued}) /\ noTransactionOperationQueue \in Seq(Call)
      /\ RunQueued \notin Call
  BY DEF TypeOK, RunQueued, Call, Kinds
<1>1. CASE RunOutsideTransaction \/ RunInTransaction \/ RunBatch
  <2>. DEFINE k == Head(tasks)
  <2>1. /\ NextTask(k) /\ k.kind \in Kinds /\ Run(k)
        /\ noTransactionOperationQueue' = noTransactionOperationQueue
        /\ \/ currentTransactionId = NoTransaction
           \/ Admitted(k)
           \/ k.kind = "batch"
    BY <1>1 DEF RunOutsideTransaction, RunInTransaction, RunBatch, Kinds
  <2>2. k \in Call
    BY <1>0, <2>1, HeadTailTyped, TaskIsCall DEF NextTask
  <2>. HIDE DEF k
  <2>3. /\ OneCallEach' /\ InFlight' \subseteq InFlight
        /\ k \in InFlight /\ \A x \in InFlight' : ~SameSender(x, k)
    BY <2>1, <2>2, TaskTaken DEF ProtocolInvariant
  <2>4. Awaited' /\ Owned' /\ Stored' /\ StoreStep
    BY <2>1, <2>3, RunKeepsProtocol
  <2>. QED
    BY <2>3, <2>4 DEF ProtocolInvariant
<1>2. CASE RunQueuedOperation
  <2>. DEFINE k == Head(noTransactionOperationQueue)
  <2>1. /\ OneCallEach' /\ InFlight' \subseteq InFlight
        /\ k \in InFlight /\ \A x \in InFlight' : ~SameSender(x, k)
    BY <1>2, QueuedTaken DEF RunQueuedOperation, ProtocolInvariant
  <2>2. Run(k) /\ currentTransactionId = NoTransaction
    BY <1>2 DEF RunQueuedOperation
  <2>. HIDE DEF k
  <2>3. Awaited' /\ Owned' /\ Stored' /\ StoreStep
    BY <2>1, <2>2, RunKeepsProtocol
  <2>. QED
    BY <2>1, <2>3 DEF ProtocolInvariant
<1>3. CASE QueueForLater
  <2>. DEFINE k == Head(tasks)  q == noTransactionOperationQueue
  <2>1. /\ NextTask(k) /\ k.kind \in Kinds /\ q' = Append(q, k)
        /\ UNCHANGED <<nativeVars, sqliteVars, clientVars>>
    BY <1>3 DEF QueueForLater
  <2>2. k \in Call
    BY <1>0, <2>1, HeadTailTyped, TaskIsCall DEF NextTask
  <2>3. /\ Calls(tasks)' \subseteq Calls(tasks) /\ k \in Calls(tasks)
        /\ OneEach(tasks)' /\ \A x \in Calls(tasks)' : ~SameSender(x, k)
    BY <1>0, <2>1, <2>2, CallsOfTail, OneEachTail DEF NextTask, ProtocolInvariant,
       OneCallEach
  <2>. HIDE DEF k
  <2>4. Calls(q)' \subseteq Calls(q) \cup {k} /\ OneEach(q)'
    <3>1. \A x \in Calls(q) : ~SameSender(x, k)
      BY <2>3 DEF ProtocolInvariant, OneCallEach, SameSender
    <3>. QED
      BY <1>0, <2>1, <2>2, <3>1, CallsOfAppend, OneEachAppend DEF ProtocolInvariant,
         OneCallEach
  <2>5. OneCallEach' /\ InFlight' \subseteq InFlight
    BY <2>3, <2>4 DEF ProtocolInvariant, OneCallEach, InFlight, SameSender
  <2>. QED
    BY <2>1, <2>5, WorkerKeepsProtocol
<1>4. CASE PostRunQueued
  <2>1. OneCallEach' /\ InFlight' \subseteq InFlight
    BY <1>0, <1>4, CallPosted DEF PostRunQueued, ProtocolInvariant
  <2>. QED
    BY <1>4, <2>1, WorkerKeepsProtocol DEF PostRunQueued
<1>5. CASE StartRunQueued
  <2>1. OneCallEach' /\ InFlight' \subseteq InFlight
    BY <1>5, TaskTaken DEF StartRunQueued, ProtocolInvariant
  <2>. QED
    BY <1>5, <2>1, WorkerKeepsProtocol DEF StartRunQueued
<1>6. CASE StopRunQueued \/ UNCHANGED vars
  <2>1. /\ UNCHANGED <<tasks, noTransactionOperationQueue>>
        /\ UNCHANGED <<nativeVars, sqliteVars, clientVars>>
    BY <1>6 DEF StopRunQueued, vars
  <2>2. OneCallEach' /\ InFlight' \subseteq InFlight
    BY <2>1 DEF ProtocolInvariant, OneCallEach, InFlight
  <2>. QED
    BY <2>1, <2>2, WorkerKeepsProtocol
<1>7. ASSUME NEW c \in Clients, Client(c) PROVE ProtocolInvariant' /\ StoreStep
  <2>1. ~RollbackRecovered(c)
    BY DEF RollbackRecovered, ProtocolInvariant, Owned
  <2>2. CASE Reopen(c) \/ HotRestart(c)
    BY <2>2, RestartKeepsProtocol
  <2>3. CASE BeginTransaction(c) \/ CallOnDatabase(c) \/ CallOnTransaction(c)
               \/ EndTransaction(c)
    <3>1. PICK kind \in Kinds :
            /\ Invoke(c, kind, held[c])
            /\ kind = "begin" => held[c] = NoTransaction
            /\ kind \in {"batch", "commit", "rollback"} => held[c] # NoTransaction
      BY <2>3, ConstantsAssumption DEF BeginTransaction, CallOnDatabase,
         CallOnTransaction, EndTransaction, Kinds, SafeUse
    <3>. QED
      BY <3>1, InvokeKeepsProtocol
  <2>. QED
    BY <1>7, <2>1, <2>2, <2>3 DEF Client
<1>. QED
  BY <1>1, <1>2, <1>3, <1>4, <1>5, <1>6, <1>7 DEF Next, Worker

LEMMA InitProtocol == Init => ProtocolInvariant /\ ParkedInvariant /\ Store!Init
<1>. SUFFICES ASSUME Init PROVE ProtocolInvariant /\ ParkedInvariant /\ Store!Init
  OBVIOUS
<1>1. InFlight = {} /\ Calls(noTransactionOperationQueue) = {} /\ Calls(tasks) = {}
  BY DEF Init, InFlight, Calls
<1>2. OneCallEach
  BY <1>1 DEF Init, OneCallEach, OneEach
<1>3. Awaited /\ Owned
  BY <1>1 DEF Init, Awaited, Owned
<1>4. Stored /\ Store!Init
  BY DEF Init, Stored, AllOrNothing, Store!Init
<1>5. ParkedInvariant
  BY <1>1 DEF Init, ParkedInvariant, NoTransaction
<1>. QED
  BY <1>2, <1>3, <1>4, <1>5 DEF ProtocolInvariant

(* What was written in a transaction is durable only if its COMMIT         *)
(* succeeded, whichever calls of other isolates, from before a restart or  *)
(* parked meanwhile, run between its own.                                  *)
THEOREM Atomicity ==
  ASSUME SafeUse
  PROVE  Spec => []AllOrNothing
<1>1. TypeOK /\ ParkedInvariant /\ ProtocolInvariant /\ [Next]_vars => ProtocolInvariant'
  BY ProtocolStep
<1>2. ProtocolInvariant => AllOrNothing
  BY DEF ProtocolInvariant, Stored
<1>. QED
  BY <1>1, <1>2, InitProtocol, ParkedStep, TypeCorrect, PTL DEF Spec

(* The isolates, the task queue and the wrapper together are a store with  *)
(* one transaction at a time.                                              *)
THEOREM Implements ==
  ASSUME SafeUse
  PROVE  Spec => ImplementsTransactionStore
<1>1. TypeOK /\ ParkedInvariant /\ ProtocolInvariant /\ [Next]_vars =>
        ProtocolInvariant' /\ [Store!Next]_Store!vars
  BY ProtocolStep DEF StoreStep
<1>. QED
  BY <1>1, InitProtocol, ParkedStep, TypeCorrect, PTL
     DEF Spec, ImplementsTransactionStore, Store!Spec
=============================================================================
