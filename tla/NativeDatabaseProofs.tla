------------------------- MODULE NativeDatabaseProofs -------------------------
(* Theorems about NativeDatabase, for any number of isolates, transactions *)
(* and hot restarts.                                                       *)
EXTENDS NativeDatabase, SequenceTheorems, TLAPS

(* Appending a call or a posted task keeps the sequence one of tasks. *)
LEMMA AppendTyped ==
  ASSUME NEW S, NEW s \in Seq(S), NEW e \in S
  PROVE  Append(s, e) \in Seq(S)
BY AppendProperties

(* Taking the head of a non-empty sequence leaves a sequence. *)
LEMMA HeadTailTyped ==
  ASSUME NEW S, NEW s \in Seq(S), s # <<>>
  PROVE  Head(s) \in S /\ Tail(s) \in Seq(S)
BY HeadTailProperties

(* A task whose kind is that of a call is a call. *)
LEMMA TaskIsCall ==
  ASSUME NEW k \in Call \cup {RunQueued}, k.kind \in Kinds
  PROVE  k \in Call
BY DEF Call, RunQueued, Kinds

(* The part of TypeOK that running a call can change. *)
RunTypes ==
  /\ currentTransactionId \in Nat
  /\ lastTransactionId \in Nat
  /\ transactionDepth \in Int
  /\ openTx \in BOOLEAN
  /\ writes \subseteq Nat \cup {ForceId}
  /\ durable \subseteq Nat \cup {ForceId}
  /\ committed \subseteq Nat \cup {ForceId}
  /\ phase \in [Clients -> {"closed", "recovered", "open"}]
  /\ held \in [Clients -> Nat]
  /\ waiting \in [Clients -> BOOLEAN]
  /\ epoch \in [Clients -> Nat]
  /\ begins \in Nat

(* Answering a call keeps the types of the isolates' variables.            *)
LEMMA ReplyTyped ==
  ASSUME NEW k \in Call, NEW t \in Nat, RunTypes, Reply(k, t)
  PROVE  /\ phase' \in [Clients -> {"closed", "recovered", "open"}]
         /\ held' \in [Clients -> Nat]
         /\ waiting' \in [Clients -> BOOLEAN]
         /\ epoch' \in [Clients -> Nat]
         /\ begins' \in Nat
BY DEF RunTypes, Reply, Call

(* Running a call keeps the types. *)
LEMMA RunTyped ==
  ASSUME NEW k \in Call, RunTypes, Run(k)
  PROVE  RunTypes'
<1>0. k.tid \in Nat \cup {ForceId} /\ k.client \in Clients /\ NoTransaction \in Nat
  BY DEF Call, NoTransaction
<1>1. CASE DoBegin(k)
  <2>1. lastTransactionId + 1 \in Nat
    BY DEF RunTypes
  <2>2. /\ phase' \in [Clients -> {"closed", "recovered", "open"}]
        /\ held' \in [Clients -> Nat]
        /\ waiting' \in [Clients -> BOOLEAN]
        /\ epoch' \in [Clients -> Nat]
        /\ begins' \in Nat
    BY <1>0, <1>1, <2>1, ReplyTyped DEF DoBegin
  <2>3. currentTransactionId' \in Nat /\ lastTransactionId' \in Nat
    BY <1>0, <1>1, <2>1 DEF DoBegin
  <2>4. transactionDepth' \in Int
    BY <1>1 DEF DoBegin, RunTypes
  <2>5. openTx' \in BOOLEAN /\ UNCHANGED <<writes, durable, committed>>
    BY <1>1 DEF DoBegin, RunTypes, sqliteVars
  <2>. QED
    BY <2>2, <2>3, <2>4, <2>5 DEF RunTypes
<1>2. CASE DoStatement(k)
  <2>1. held[k.client] \in Nat
    BY <1>0 DEF RunTypes
  <2>2. /\ phase' \in [Clients -> {"closed", "recovered", "open"}]
        /\ held' \in [Clients -> Nat]
        /\ waiting' \in [Clients -> BOOLEAN]
        /\ epoch' \in [Clients -> Nat]
        /\ begins' \in Nat
    BY <1>2, <2>1, ReplyTyped DEF DoStatement
  <2>. QED
    BY <1>0, <1>2, <2>2 DEF DoStatement, Write, AutoRollback, RunTypes,
       sqliteVars, nativeVars
<1>3. CASE DoCommit(k)
  <2>1. /\ phase' \in [Clients -> {"closed", "recovered", "open"}]
        /\ held' \in [Clients -> Nat]
        /\ waiting' \in [Clients -> BOOLEAN]
        /\ epoch' \in [Clients -> Nat]
        /\ begins' \in Nat
    BY <1>0, <1>3, ReplyTyped DEF DoCommit
  <2>2. /\ currentTransactionId' \in Nat /\ lastTransactionId' \in Nat
        /\ transactionDepth' \in Int
    BY <1>0, <1>3 DEF DoCommit, LeaveTransaction, RunTypes, nativeVars
  <2>3. /\ openTx' \in BOOLEAN
        /\ writes' \subseteq Nat \cup {ForceId}
        /\ durable' \subseteq Nat \cup {ForceId}
        /\ committed' \subseteq Nat \cup {ForceId}
    BY <1>0, <1>3 DEF DoCommit, LeaveTransaction, RunTypes, sqliteVars
  <2>. QED
    BY <2>1, <2>2, <2>3 DEF RunTypes
<1>4. CASE DoRollback(k)
  <2>1. /\ phase' \in [Clients -> {"closed", "recovered", "open"}]
        /\ held' \in [Clients -> Nat]
        /\ waiting' \in [Clients -> BOOLEAN]
        /\ epoch' \in [Clients -> Nat]
        /\ begins' \in Nat
    BY <1>0, <1>4, ReplyTyped DEF DoRollback
  <2>2. /\ currentTransactionId' \in Nat /\ lastTransactionId' \in Nat
        /\ transactionDepth' \in Int
    BY <1>0, <1>4 DEF DoRollback, LeaveTransaction, RunTypes, nativeVars
  <2>3. /\ openTx' \in BOOLEAN
        /\ writes' \subseteq Nat \cup {ForceId}
        /\ durable' \subseteq Nat \cup {ForceId}
        /\ committed' \subseteq Nat \cup {ForceId}
    BY <1>0, <1>4 DEF DoRollback, LeaveTransaction, RunTypes, sqliteVars
  <2>. QED
    BY <2>1, <2>2, <2>3 DEF RunTypes
<1>. QED
  BY <1>1, <1>2, <1>3, <1>4 DEF Run
-----------------------------------------------------------------------------
(* Posting a call keeps the types. *)
LEMMA InvokeTyped ==
  ASSUME NEW c \in Clients, NEW kind \in Kinds, NEW tid \in Nat \cup {ForceId},
         kind = "begin" => tid = NoTransaction,
         TypeOK, Invoke(c, kind, tid)
  PROVE  TypeOK'
<1>1. [kind |-> kind, client |-> c, epoch |-> epoch[c], tid |-> tid]
        \in Call \cup {RunQueued}
  BY DEF Call, TypeOK
<1>2. tasks' \in Seq(Call \cup {RunQueued})
  BY <1>1, AppendTyped DEF TypeOK, Invoke
<1>3. waiting' \in [Clients -> BOOLEAN] /\ begins' \in Nat
  BY DEF TypeOK, Invoke
<1>. QED
  BY <1>2, <1>3 DEF TypeOK, Invoke, nativeVars, sqliteVars

(* The initial state has the types. *)
LEMMA InitTyped == Init => TypeOK
<1>. SUFFICES ASSUME Init PROVE TypeOK
  OBVIOUS
<1>1. /\ tasks \in Seq(Call \cup {RunQueued})
      /\ noTransactionOperationQueue \in Seq(Call)
  BY EmptySeq DEF Init
<1>2. /\ phase \in [Clients -> {"closed", "recovered", "open"}]
      /\ held \in [Clients -> Nat]
      /\ waiting \in [Clients -> BOOLEAN]
      /\ epoch \in [Clients -> Nat]
  BY DEF Init, NoTransaction
<1>3. /\ currentTransactionId \in Nat /\ lastTransactionId \in Nat
      /\ transactionDepth \in Int /\ begins \in Nat
  BY DEF Init, NoTransaction
<1>. QED
  BY <1>1, <1>2, <1>3 DEF Init, TypeOK

(* Every step keeps the types. *)
LEMMA NextTyped == TypeOK /\ [Next]_vars => TypeOK'
<1>. SUFFICES ASSUME TypeOK, [Next]_vars PROVE TypeOK'
  OBVIOUS
<1>0. NoTransaction \in Nat
  BY DEF NoTransaction
<1>1. ASSUME NEW k, NextTask(k)
      PROVE  k \in Call \cup {RunQueued} /\ tasks' \in Seq(Call \cup {RunQueued})
  BY <1>1, HeadTailTyped DEF NextTask, TypeOK
<1>2. ASSUME NEW k \in Call, Run(k) PROVE RunTypes'
  BY <1>2, RunTyped DEF RunTypes, TypeOK
<1>3. CASE RunOutsideTransaction
  <2>1. Head(tasks) \in Call /\ tasks' \in Seq(Call \cup {RunQueued})
    BY <1>1, <1>3, TaskIsCall DEF RunOutsideTransaction
  <2>2. RunTypes'
    BY <1>2, <1>3, <2>1 DEF RunOutsideTransaction
  <2>. QED
    BY <1>3, <2>1, <2>2 DEF RunOutsideTransaction, RunTypes, TypeOK
<1>4. CASE RunInTransaction
  <2>1. Head(tasks) \in Call /\ tasks' \in Seq(Call \cup {RunQueued})
    BY <1>1, <1>4, TaskIsCall DEF RunInTransaction
  <2>2. RunTypes'
    BY <1>2, <1>4, <2>1 DEF RunInTransaction
  <2>. QED
    BY <1>4, <2>1, <2>2 DEF RunInTransaction, RunTypes, TypeOK
<1>5. CASE QueueForLater
  <2>1. Head(tasks) \in Call /\ tasks' \in Seq(Call \cup {RunQueued})
    BY <1>1, <1>5, TaskIsCall DEF QueueForLater
  <2>2. noTransactionOperationQueue' \in Seq(Call)
    BY <1>5, <2>1, AppendTyped DEF QueueForLater, TypeOK
  <2>. QED
    BY <1>5, <2>1, <2>2
       DEF QueueForLater, TypeOK, nativeVars, sqliteVars, clientVars
<1>6. CASE RunBatch
  <2>1. Head(tasks) \in Call /\ tasks' \in Seq(Call \cup {RunQueued})
    BY <1>1, <1>6, TaskIsCall DEF RunBatch, Kinds
  <2>2. RunTypes'
    BY <1>2, <1>6, <2>1 DEF RunBatch
  <2>. QED
    BY <1>6, <2>1, <2>2 DEF RunBatch, RunTypes, TypeOK
<1>7. CASE PostRunQueued
  <2>1. tasks' \in Seq(Call \cup {RunQueued})
    BY <1>7, AppendTyped DEF PostRunQueued, TypeOK
  <2>. QED
    BY <1>7, <2>1 DEF PostRunQueued, TypeOK, nativeVars, sqliteVars, clientVars
<1>8. CASE StartRunQueued
  <2>1. tasks' \in Seq(Call \cup {RunQueued})
    BY <1>1, <1>8 DEF StartRunQueued
  <2>. QED
    BY <1>8, <2>1 DEF StartRunQueued, TypeOK, nativeVars, sqliteVars, clientVars
<1>9. CASE RunQueuedOperation
  <2>1. /\ Head(noTransactionOperationQueue) \in Call
        /\ noTransactionOperationQueue' \in Seq(Call)
    BY <1>9, HeadTailTyped DEF RunQueuedOperation, TypeOK
  <2>2. RunTypes'
    BY <1>2, <1>9, <2>1 DEF RunQueuedOperation
  <2>. QED
    BY <1>9, <2>1, <2>2 DEF RunQueuedOperation, RunTypes, TypeOK
<1>10. CASE StopRunQueued
  BY <1>10 DEF StopRunQueued, TypeOK, nativeVars, sqliteVars, clientVars
<1>11. ASSUME NEW c \in Clients, Client(c) PROVE TypeOK'
  <2>1. CASE Reopen(c)
    BY <2>1 DEF Reopen, TypeOK, nativeVars, sqliteVars
  <2>2. CASE RollbackRecovered(c)
    BY <2>2, InvokeTyped DEF RollbackRecovered, Kinds
  <2>3. CASE BeginTransaction(c)
    BY <1>0, <2>3, InvokeTyped DEF BeginTransaction, Kinds
  <2>4. CASE CallOnDatabase(c)
    <3>1. PICK kind \in PlainCalls : Invoke(c, kind, NoTransaction)
      BY <2>4 DEF CallOnDatabase
    <3>2. kind \in Kinds /\ kind # "begin"
      BY ConstantsAssumption DEF Kinds
    <3>. QED
      BY <1>0, <3>1, <3>2, InvokeTyped
  <2>5. CASE CallOnTransaction(c)
    <3>1. PICK kind \in {"statement", "batch"} : Invoke(c, kind, held[c])
      BY <2>5 DEF CallOnTransaction
    <3>2. kind \in Kinds /\ kind # "begin" /\ held[c] \in Nat \cup {ForceId}
      BY DEF Kinds, TypeOK
    <3>. QED
      BY <3>1, <3>2, InvokeTyped
  <2>6. CASE EndTransaction(c)
    <3>1. PICK kind \in {"commit", "rollback"} : Invoke(c, kind, held[c])
      BY <2>6 DEF EndTransaction
    <3>2. kind \in Kinds /\ kind # "begin" /\ held[c] \in Nat \cup {ForceId}
      BY DEF Kinds, TypeOK
    <3>. QED
      BY <3>1, <3>2, InvokeTyped
  <2>7. CASE HotRestart(c)
    BY <1>0, <2>7 DEF HotRestart, TypeOK, nativeVars, sqliteVars
  <2>. QED
    BY <1>11, <2>1, <2>2, <2>3, <2>4, <2>5, <2>6, <2>7 DEF Client
<1>12. CASE UNCHANGED vars
  BY <1>12 DEF vars, TypeOK, nativeVars, sqliteVars, clientVars
<1>. QED
  BY <1>3, <1>4, <1>5, <1>6, <1>7, <1>8, <1>9, <1>10, <1>11, <1>12
     DEF Next, Worker

(* The variables keep their types in every behaviour of the native         *)
(* database, whatever the isolates call and SQLite answers.                *)
THEOREM TypeCorrect == Spec => []TypeOK
BY InitTyped, NextTyped, PTL DEF Spec
-----------------------------------------------------------------------------
(* Two facts about queues: what is not at the head stays when the head is  *)
(* taken, and everything stays when an element is appended.                *)
LEMMA TailKeeps ==
  ASSUME NEW S, NEW s \in Seq(S), s # <<>>, NEW i \in DOMAIN s,
         s[i] # Head(s)
  PROVE  \E j \in DOMAIN Tail(s) : Tail(s)[j] = s[i]
<1>1. i \in 1..Len(s) /\ i # 1
  BY HeadTailProperties
<1>2. /\ Tail(s) \in Seq(S) /\ Len(Tail(s)) = Len(s) - 1
      /\ \A j \in 1..Len(Tail(s)) : Tail(s)[j] = s[j + 1]
  BY HeadTailProperties
<1>3. i - 1 \in 1..Len(Tail(s)) /\ (i - 1) + 1 = i
  BY <1>1, <1>2, LenProperties
<1>4. Tail(s)[i - 1] = s[i]
  BY <1>2, <1>3
<1>5. i - 1 \in DOMAIN Tail(s)
  BY <1>2, <1>3, LenProperties
<1>. QED
  BY <1>4, <1>5

(* An element of a sequence is still there after an append.                *)
LEMMA AppendKeeps ==
  ASSUME NEW S, NEW s \in Seq(S), NEW e \in S
  PROVE  /\ \E j \in DOMAIN Append(s, e) : Append(s, e)[j] = e
         /\ \A i \in DOMAIN s :
              \E j \in DOMAIN Append(s, e) : Append(s, e)[j] = s[i]
<1>1. /\ Append(s, e) \in Seq(S) /\ Len(Append(s, e)) = Len(s) + 1
      /\ \A i \in 1..Len(s) : Append(s, e)[i] = s[i]
      /\ Append(s, e)[Len(s) + 1] = e
  BY AppendProperties
<1>2. /\ DOMAIN s = 1..Len(s) /\ Len(s) \in Nat
      /\ DOMAIN Append(s, e) = 1..(Len(s) + 1)
  BY <1>1, LenProperties
<1>3. Len(s) + 1 \in DOMAIN Append(s, e)
  BY <1>2
<1>4. \A i \in DOMAIN s : i \in DOMAIN Append(s, e)
  BY <1>2
<1>. QED
  BY <1>1, <1>2, <1>3, <1>4

(* A runQueuedOperations is posted and not started. *)
Posted == \E i \in DOMAIN tasks : tasks[i] = RunQueued

(* A step that takes a call from tasks leaves a posted runQueuedOperations *)
(* where it is.                                                            *)
LEMMA PostedStays ==
  ASSUME TypeOK, Posted, NextTask(Head(tasks)), Head(tasks).kind \in Kinds
  PROVE  Posted'
<1>1. PICK i \in DOMAIN tasks : tasks[i] = RunQueued
  BY DEF Posted
<1>2. RunQueued # Head(tasks)
  BY DEF RunQueued, Kinds
<1>3. \E j \in DOMAIN Tail(tasks) : Tail(tasks)[j] = tasks[i]
  BY <1>1, <1>2, TailKeeps DEF TypeOK, NextTask
<1>. QED
  BY <1>1, <1>3 DEF Posted, NextTask

(* Neither does one that posts a call. *)
LEMMA PostedStaysOnPost ==
  ASSUME TypeOK, Posted, NEW e \in Call, tasks' = Append(tasks, e)
  PROVE  Posted'
<1>1. e \in Call \cup {RunQueued} /\ tasks \in Seq(Call \cup {RunQueued})
  BY DEF TypeOK
<1>2. \A i \in DOMAIN tasks :
        \E j \in DOMAIN Append(tasks, e) : Append(tasks, e)[j] = tasks[i]
  BY <1>1, AppendKeeps
<1>. QED
  BY <1>2 DEF Posted

(* A call of an isolate only appends one call to tasks. *)
LEMMA ClientPosts ==
  ASSUME TypeOK, NEW c \in Clients, Client(c)
  PROVE  /\ tasks' = tasks \/ \E e \in Call : tasks' = Append(tasks, e)
         /\ UNCHANGED <<worker, noTransactionOperationQueue, nativeVars,
                        sqliteVars>>
<1>1. ASSUME NEW kind \in Kinds, NEW tid \in Nat \cup {ForceId},
             kind = "begin" => tid = NoTransaction, Invoke(c, kind, tid)
      PROVE  /\ \E e \in Call : tasks' = Append(tasks, e)
             /\ UNCHANGED <<worker, noTransactionOperationQueue, nativeVars,
                            sqliteVars>>
  <2>1. [kind |-> kind, client |-> c, epoch |-> epoch[c], tid |-> tid] \in Call
    BY <1>1 DEF Call, TypeOK
  <2>. QED
    BY <1>1, <2>1 DEF Invoke
<1>2. NoTransaction \in Nat /\ held[c] \in Nat
  BY DEF NoTransaction, TypeOK
<1>3. CASE Reopen(c) \/ HotRestart(c)
  BY <1>3 DEF Reopen, HotRestart
<1>4. CASE RollbackRecovered(c)
  BY <1>1, <1>4 DEF RollbackRecovered, Kinds
<1>5. CASE BeginTransaction(c)
  BY <1>1, <1>2, <1>5 DEF BeginTransaction, Kinds
<1>6. CASE CallOnDatabase(c)
  <2>1. PICK kind \in PlainCalls : Invoke(c, kind, NoTransaction)
    BY <1>6 DEF CallOnDatabase
  <2>2. kind \in Kinds
    BY ConstantsAssumption DEF Kinds
  <2>. QED
    BY <1>1, <1>2, <2>1, <2>2
<1>7. CASE CallOnTransaction(c)
  <2>1. PICK kind \in {"statement", "batch"} : Invoke(c, kind, held[c])
    BY <1>7 DEF CallOnTransaction
  <2>2. kind \in Kinds /\ kind # "begin"
    BY DEF Kinds
  <2>. QED
    BY <1>1, <1>2, <2>1, <2>2
<1>8. CASE EndTransaction(c)
  <2>1. PICK kind \in {"commit", "rollback"} : Invoke(c, kind, held[c])
    BY <1>8 DEF EndTransaction
  <2>2. kind \in Kinds /\ kind # "begin"
    BY DEF Kinds
  <2>. QED
    BY <1>1, <1>2, <2>1, <2>2
<1>. QED
  BY <1>3, <1>4, <1>5, <1>6, <1>7, <1>8 DEF Client

-----------------------------------------------------------------------------
(* NoLostWakeUp is inductive once the types are known. *)
LEMMA NoLostWakeUpStep ==
  ASSUME TypeOK, NoLostWakeUp, [Next]_vars
  PROVE  NoLostWakeUp'
<1>. DEFINE N == \/ noTransactionOperationQueue = <<>>
                 \/ currentTransactionId # NoTransaction
                 \/ worker \in {"post", "drain"}
                 \/ Posted
<1>1. N
  BY DEF NoLostWakeUp, Posted
<1>2. SUFFICES N'
  BY DEF NoLostWakeUp, Posted
<1>3. CASE RunOutsideTransaction
  <2>1. noTransactionOperationQueue = <<>> \/ Posted'
    BY <1>1, <1>3, PostedStays DEF RunOutsideTransaction, NextTask
  <2>. QED
    BY <1>3, <2>1 DEF RunOutsideTransaction
<1>4. CASE RunInTransaction
  BY <1>4 DEF RunInTransaction
<1>5. CASE QueueForLater
  BY <1>5 DEF QueueForLater, nativeVars
<1>6. CASE RunBatch
  <2>1. \/ noTransactionOperationQueue = <<>>
        \/ currentTransactionId # NoTransaction
        \/ Posted'
    BY <1>1, <1>6, PostedStays DEF RunBatch, NextTask, Kinds
  <2>2. UNCHANGED nativeVars
    BY <1>6 DEF RunBatch, Run, DoBegin, DoStatement, DoCommit, DoRollback
  <2>. QED
    BY <1>6, <2>1, <2>2 DEF RunBatch, nativeVars
<1>7. CASE PostRunQueued
  <2>1. ASSUME NEW e \in Call \cup {RunQueued}, tasks' = Append(tasks, e)
        PROVE  \E j \in DOMAIN tasks' : tasks'[j] = e
    <3>1. tasks \in Seq(Call \cup {RunQueued})
      BY DEF TypeOK
    <3>2. \E j \in DOMAIN Append(tasks, e) : Append(tasks, e)[j] = e
      BY <2>1, <3>1, AppendKeeps
    <3>. QED
      BY <2>1, <3>2
  <2>. QED
    BY <1>7, <2>1 DEF PostRunQueued, Posted
<1>8. CASE StartRunQueued
  BY <1>8 DEF StartRunQueued
<1>9. CASE RunQueuedOperation
  BY <1>9 DEF RunQueuedOperation
<1>10. CASE StopRunQueued
  BY <1>10 DEF StopRunQueued, nativeVars
<1>11. ASSUME NEW c \in Clients, Client(c) PROVE N'
  <2>1. /\ tasks' = tasks \/ \E e \in Call : tasks' = Append(tasks, e)
        /\ UNCHANGED <<worker, noTransactionOperationQueue, nativeVars>>
    BY <1>11, ClientPosts
  <2>2. Posted => Posted'
    BY <2>1, PostedStaysOnPost DEF Posted
  <2>. QED
    BY <1>1, <2>1, <2>2 DEF nativeVars
<1>12. CASE UNCHANGED vars
  BY <1>1, <1>12 DEF vars, nativeVars, Posted
<1>. QED
  BY <1>3, <1>4, <1>5, <1>6, <1>7, <1>8, <1>9, <1>10, <1>11, <1>12
     DEF Next, Worker

(* A call that runQueuedOperations has to run is never forgotten: whenever *)
(* one is parked, a transaction whose end will look at the queue is        *)
(* active, or a runQueuedOperations is running, posted or about to be.     *)
THEOREM ParkedCallsNotForgotten == Spec => []NoLostWakeUp
<1>1. Init => NoLostWakeUp
  BY DEF Init, NoLostWakeUp
<1>. QED
  BY <1>1, NoLostWakeUpStep, TypeCorrect, PTL DEF Spec

-----------------------------------------------------------------------------
(* What makes DepthMatchesCurrentTransaction inductive: SQLite has a       *)
(* transaction open only while the native side has a current one.          *)
DepthInvariant ==
  /\ DepthMatchesCurrentTransaction
  /\ openTx => currentTransactionId # NoTransaction

(* Running a call keeps it, if the call is let through. *)
LEMMA RunKeepsDepth ==
  ASSUME NEW k \in Call, TypeOK, DepthInvariant, Run(k),
         currentTransactionId = NoTransaction \/ Admitted(k)
                                             \/ k.kind = "batch"
  PROVE  DepthInvariant'
<1>0. /\ currentTransactionId \in Nat /\ lastTransactionId \in Nat
      /\ transactionDepth \in Int /\ openTx \in BOOLEAN
  BY DEF TypeOK
<1>1. CASE DoBegin(k)
  <2>1. currentTransactionId = NoTransaction /\ ~openTx
    BY <1>0, <1>1 DEF DoBegin, Admitted, Call, NoTransaction, ForceId,
       DepthInvariant
  <2>. QED
    BY <1>0, <1>1, <2>1 DEF DoBegin, DepthInvariant, NoTransaction,
       DepthMatchesCurrentTransaction, sqliteVars
<1>2. CASE DoStatement(k)
  BY <1>0, <1>2 DEF DoStatement, Write, AutoRollback, DepthInvariant,
     DepthMatchesCurrentTransaction, nativeVars, sqliteVars
<1>3. CASE DoCommit(k)
  BY <1>0, <1>3 DEF DoCommit, LeaveTransaction, DepthInvariant,
     DepthMatchesCurrentTransaction, nativeVars, sqliteVars
<1>4. CASE DoRollback(k)
  BY <1>0, <1>4 DEF DoRollback, LeaveTransaction, DepthInvariant,
     DepthMatchesCurrentTransaction, nativeVars, sqliteVars
<1>. QED
  BY <1>1, <1>2, <1>3, <1>4 DEF Run

(* Every step keeps the invariant about depth and current id.              *)
LEMMA DepthStep ==
  ASSUME TypeOK, DepthInvariant, [Next]_vars
  PROVE  DepthInvariant'
<1>0. ASSUME tasks # <<>>, Head(tasks).kind \in Kinds
      PROVE  Head(tasks) \in Call
  BY <1>0, HeadTailTyped, TaskIsCall DEF TypeOK
<1>1. CASE RunOutsideTransaction
  BY <1>0, <1>1, RunKeepsDepth DEF RunOutsideTransaction, NextTask
<1>2. CASE RunInTransaction
  BY <1>0, <1>2, RunKeepsDepth DEF RunInTransaction, NextTask
<1>3. CASE RunBatch
  BY <1>0, <1>3, RunKeepsDepth DEF RunBatch, NextTask, Kinds
<1>4. CASE RunQueuedOperation
  <2>1. Head(noTransactionOperationQueue) \in Call
    BY <1>4, HeadTailTyped DEF RunQueuedOperation, TypeOK
  <2>. QED
    BY <1>4, <2>1, RunKeepsDepth DEF RunQueuedOperation
<1>5. CASE UNCHANGED <<nativeVars, sqliteVars>>
  BY <1>5 DEF DepthInvariant, DepthMatchesCurrentTransaction, nativeVars,
     sqliteVars
<1>6. CASE QueueForLater \/ PostRunQueued \/ StartRunQueued \/ StopRunQueued
  BY <1>5, <1>6 DEF QueueForLater, PostRunQueued, StartRunQueued, StopRunQueued
<1>7. ASSUME NEW c \in Clients, Client(c) PROVE DepthInvariant'
  BY <1>5, <1>7, ClientPosts
<1>8. CASE UNCHANGED vars
  BY <1>5, <1>8 DEF vars
<1>. QED
  BY <1>1, <1>2, <1>3, <1>4, <1>6, <1>7, <1>8 DEF Next, Worker

(* The depth, which pins the database to its worker and is what a          *)
(* reopening isolate is told, says a transaction is active exactly when    *)
(* currentTransactionId, which parks the other calls, says so; in          *)
(* particular it never goes negative or above one.                         *)
THEOREM DepthMatches == Spec => []DepthMatchesCurrentTransaction
<1>1. Init => DepthInvariant
  BY DEF Init, DepthInvariant, DepthMatchesCurrentTransaction
<1>2. DepthInvariant => DepthMatchesCurrentTransaction
  BY DEF DepthInvariant
<1>. QED
  BY <1>1, <1>2, DepthStep, TypeCorrect, PTL DEF Spec
=============================================================================
