---------------------------- MODULE NativeDatabase ----------------------------
(***************************************************************************)
(* One native database of the Android plugin (Database.java), shared by    *)
(* the Dart isolates that opened it as a single instance.                  *)
(*                                                                         *)
(* The plugin posts every method call to the worker pool, which runs the   *)
(* tasks of a database one at a time and in order (module DatabaseWorker-  *)
(* Pool).  wrapSqlOperationHandler runs a call at once, or, while another  *)
(* transaction is active, parks it in noTransactionOperationQueue;         *)
(* runQueuedOperations, a task of its own, empties that queue later.       *)
(*                                                                         *)
(* The Dart side (database_mixin.dart) appears as the protocol its         *)
(* transaction(), execute(), batch() and open calls follow: one call in    *)
(* flight per isolate, COMMIT or ROLLBACK sent exactly once.  SQLite is    *)
(* external: it has at most one transaction open on the connection.        *)
(***************************************************************************)
EXTENDS Integers, Sequences, FiniteSets

CONSTANTS
  Clients,            \* the Dart isolates sharing the database
  MaxTransactions,    \* bound on the BEGINs the isolates send
  MaxRestarts,        \* bound on the hot restarts of one isolate
  RollbackActiveTransactionOnOpen,  \* the open option of that name
  PlainCalls,         \* what is called outside a transaction
  Faults              \* what SQLite may do to a legal command

ASSUME ConstantsAssumption ==
  /\ MaxTransactions \in Nat
  /\ MaxRestarts \in Nat
  /\ RollbackActiveTransactionOnOpen \in BOOLEAN
  /\ PlainCalls \subseteq {"statement", "batch"}
  /\ Faults \subseteq {"begin", "commit", "autoRollback"}

VARIABLES
  \* Database.java
  tasks,              \* tasks posted for this database, not started
  worker,             \* what the pool's thread is doing
  noTransactionOperationQueue,
  currentTransactionId,
  lastTransactionId,
  transactionDepth,
  \* SQLite
  openTx,             \* a transaction is open on the connection
  writes,             \* transaction ids of its uncommitted statements
  durable,            \* transaction ids of the statements made durable
  \* the Dart isolates
  phase,              \* "closed", "recovered" or "open"
  held,               \* SqfliteTransaction.transactionId, or none
  waiting,            \* a method call is unanswered
  epoch,              \* hot restarts so far
  begins,             \* BEGINs sent so far, for the bound
  \* history
  committed           \* ids whose COMMIT was reported successful

nativeVars == <<currentTransactionId, lastTransactionId, transactionDepth>>
sqliteVars == <<openTx, writes, durable, committed>>
clientVars == <<phase, held, waiting, epoch, begins>>
vars == <<tasks, worker, noTransactionOperationQueue, nativeVars,
          sqliteVars, clientVars>>

-----------------------------------------------------------------------------
(* Java's null, and TRANSACTION_ID_FORCE. *)
NoTransaction == 0
ForceId == -1

Ids == Nat \ {NoTransaction}
Kinds == {"begin", "statement", "batch", "commit", "rollback"}
Call == {k \in [kind : Kinds, client : Clients, epoch : Nat,
                tid : Nat \cup {ForceId}] :
           k.kind = "begin" => k.tid = NoTransaction}
RunQueued == [kind |-> "runQueued"]

Init ==
  /\ tasks = <<>> /\ worker = "idle" /\ noTransactionOperationQueue = <<>>
  /\ currentTransactionId = NoTransaction
  /\ lastTransactionId = 0 /\ transactionDepth = 0
  /\ openTx = FALSE /\ writes = {} /\ durable = {} /\ committed = {}
  /\ phase = [c \in Clients |-> "closed"]
  /\ held = [c \in Clients |-> NoTransaction]
  /\ waiting = [c \in Clients |-> FALSE]
  /\ epoch = [c \in Clients |-> 0]
  /\ begins = 0

isInTransaction == transactionDepth > 0

-----------------------------------------------------------------------------
(* The isolates. *)

(* onXxxCall on the isolate's task queue: post a task for the call. *)
Invoke(c, kind, tid) ==
  /\ ~waiting[c]
  /\ waiting' = [waiting EXCEPT ![c] = TRUE]
  /\ tasks' = Append(tasks, [kind |-> kind, client |-> c,
                             epoch |-> epoch[c], tid |-> tid])
  /\ begins' = IF kind = "begin" THEN begins + 1 ELSE begins
  /\ UNCHANGED <<worker, noTransactionOperationQueue, nativeVars, sqliteVars,
                 phase, held, epoch>>

(* openDatabase finds the single instance open; the native side answers    *)
(* recoveredInTransaction without going through the worker.                *)
Reopen(c) ==
  /\ phase[c] = "closed"
  /\ phase' = [phase EXCEPT ![c] =
                 IF isInTransaction /\ RollbackActiveTransactionOnOpen
                   THEN "recovered" ELSE "open"]
  /\ UNCHANGED <<tasks, worker, noTransactionOperationQueue, nativeVars,
                 sqliteVars, held, waiting, epoch, begins>>

(* The forced ROLLBACK that Dart sends for a recovered database. *)
RollbackRecovered(c) ==
  /\ phase[c] = "recovered"
  /\ Invoke(c, "rollback", ForceId)

BeginTransaction(c) ==
  /\ phase[c] = "open" /\ held[c] = NoTransaction
  /\ begins < MaxTransactions
  /\ Invoke(c, "begin", NoTransaction)

(* A statement or batch on the database object. *)
CallOnDatabase(c) ==
  /\ phase[c] = "open" /\ held[c] = NoTransaction
  /\ \E kind \in PlainCalls : Invoke(c, kind, NoTransaction)

(* A statement or batch on the transaction object. *)
CallOnTransaction(c) ==
  /\ held[c] # NoTransaction
  /\ \E kind \in {"statement", "batch"} : Invoke(c, kind, held[c])

(* endTransaction: COMMIT if the callback succeeded, else ROLLBACK. *)
EndTransaction(c) ==
  /\ held[c] # NoTransaction
  /\ \E kind \in {"commit", "rollback"} : Invoke(c, kind, held[c])

(* Hot restart: the Dart heap is gone, the native side is not told. *)
HotRestart(c) ==
  /\ epoch[c] < MaxRestarts
  /\ epoch' = [epoch EXCEPT ![c] = @ + 1]
  /\ phase' = [phase EXCEPT ![c] = "closed"]
  /\ held' = [held EXCEPT ![c] = NoTransaction]
  /\ waiting' = [waiting EXCEPT ![c] = FALSE]
  /\ UNCHANGED <<tasks, worker, noTransactionOperationQueue, nativeVars,
                 sqliteVars, begins>>

-----------------------------------------------------------------------------
(* Running a call on the worker. *)

(* operation.success or .error: an isolate that has restarted since has no *)
(* one to receive it.  After a call the isolate holds transaction id tid.  *)
Reply(k, tid) ==
  /\ UNCHANGED <<epoch, begins>>
  /\ IF epoch[k.client] = k.epoch
       THEN /\ waiting' = [waiting EXCEPT ![k.client] = FALSE]
            /\ held' = [held EXCEPT ![k.client] = tid]
            /\ phase' = [phase EXCEPT ![k.client] = "open"]
       ELSE UNCHANGED <<phase, held, waiting>>

(* Fault injected: a BEGIN that failed is not reverted. *)
DoBeginNotReverted(k) ==
  /\ k.kind = "begin"
  /\ lastTransactionId' = lastTransactionId + 1
  /\ currentTransactionId' = lastTransactionId + 1
  /\ Reply(k, lastTransactionId + 1)
  /\ UNCHANGED <<writes, durable, committed>>
  /\ \/ ~openTx /\ openTx' = TRUE /\ transactionDepth' = transactionDepth + 1
     \/ UNCHANGED <<openTx, transactionDepth>>

(* execute with inTransaction true and a null transaction id. *)
DoBegin(k) ==
  /\ k.kind = "begin"
  /\ lastTransactionId' = lastTransactionId + 1
  /\ \/ /\ ~openTx
        /\ openTx' = TRUE
        /\ currentTransactionId' = lastTransactionId + 1
        /\ transactionDepth' = transactionDepth + 1
        /\ Reply(k, lastTransactionId + 1)
        /\ UNCHANGED <<writes, durable, committed>>
     \/ /\ openTx \/ "begin" \in Faults
        /\ currentTransactionId' = NoTransaction
        /\ Reply(k, NoTransaction)
        /\ UNCHANGED <<transactionDepth, sqliteVars>>

(* SQLite keeps a statement in the open transaction, or commits it. *)
Write(tid) ==
  /\ IF openTx THEN writes' = writes \cup {tid} /\ UNCHANGED durable
               ELSE durable' = durable \cup {tid} /\ UNCHANGED writes
  /\ UNCHANGED <<openTx, committed>>

(* A statement may make SQLite roll the whole transaction back (conflict   *)
(* clause OR ROLLBACK, disk full).  A batch that continues on error goes   *)
(* on, and what it still runs is committed statement by statement.         *)
AutoRollback(k) ==
  /\ "autoRollback" \in Faults /\ openTx
  /\ openTx' = FALSE /\ writes' = {}
  /\ \/ UNCHANGED durable
     \/ k.kind = "batch" /\ durable' = durable \cup {k.tid}
  /\ UNCHANGED committed

(* doInsert, doUpdate, doQuery, execute of another statement; and batch,   *)
(* whose statements may fail after the first ones have run.                *)
DoStatement(k) ==
  /\ k.kind \in {"statement", "batch"}
  /\ Write(k.tid) \/ UNCHANGED sqliteVars \/ AutoRollback(k)
  /\ Reply(k, held[k.client])
  /\ UNCHANGED nativeVars

(* Fault injected: the depth is left alone when the transaction ends. *)
LeaveTransactionKeepDepth ==
  /\ openTx' = FALSE /\ writes' = {}
  /\ currentTransactionId' = NoTransaction
  /\ UNCHANGED <<lastTransactionId, transactionDepth>>

(* Fault injected: the id is set to the forced one instead of to null. *)
LeaveTransactionToForce ==
  /\ openTx' = FALSE /\ writes' = {}
  /\ currentTransactionId' = ForceId
  /\ transactionDepth' = transactionDepth - 1
  /\ UNCHANGED lastTransactionId

(* execute with inTransaction false: only a success ends the transaction   *)
(* on the native side.                                                     *)
LeaveTransaction ==
  /\ openTx' = FALSE /\ writes' = {}
  /\ currentTransactionId' = NoTransaction
  /\ transactionDepth' = transactionDepth - 1
  /\ UNCHANGED lastTransactionId

DoCommit(k) ==
  /\ k.kind = "commit"
  /\ \/ /\ openTx
        /\ LeaveTransaction
        /\ durable' = durable \cup writes
        /\ committed' = committed \cup {k.tid}
     \/ /\ ~openTx \/ "commit" \in Faults
        /\ UNCHANGED <<nativeVars, sqliteVars>>
  /\ Reply(k, NoTransaction)

DoRollback(k) ==
  /\ k.kind = "rollback"
  /\ \/ openTx /\ LeaveTransaction /\ UNCHANGED <<durable, committed>>
     \/ ~openTx /\ UNCHANGED <<nativeVars, sqliteVars>>
  /\ Reply(k, NoTransaction)

Run(k) == DoBegin(k) \/ DoStatement(k) \/ DoCommit(k) \/ DoRollback(k)

-----------------------------------------------------------------------------
(* The worker. *)

NextTask(k) ==
  /\ worker = "idle" /\ tasks # <<>>
  /\ k = Head(tasks) /\ tasks' = Tail(tasks)

(* wrapSqlOperationHandler, no transaction active: the id is ignored. *)
RunOutsideTransaction ==
  /\ NextTask(Head(tasks))
  /\ Head(tasks).kind \in Kinds \ {"batch"}
  /\ currentTransactionId = NoTransaction
  /\ Run(Head(tasks))
  /\ UNCHANGED <<worker, noTransactionOperationQueue>>

(* Fault injected: boxed ids compared by identity, or not at all. *)
AdmittedByIdentity(k) == k.tid = ForceId

Admitted(k) == k.tid = currentTransactionId \/ k.tid = ForceId

(* Fault injected: the queue is not looked at when a transaction ends. *)
RunInTransactionNoPost ==
  /\ NextTask(Head(tasks))
  /\ Head(tasks).kind \in Kinds \ {"batch"}
  /\ currentTransactionId # NoTransaction /\ Admitted(Head(tasks))
  /\ Run(Head(tasks))
  /\ UNCHANGED <<worker, noTransactionOperationQueue>>

(* wrapSqlOperationHandler, a call of the active transaction: if it ended  *)
(* the transaction, the queue is posted after the result has been sent.    *)
RunInTransaction ==
  /\ NextTask(Head(tasks))
  /\ Head(tasks).kind \in Kinds \ {"batch"}
  /\ currentTransactionId # NoTransaction /\ Admitted(Head(tasks))
  /\ Run(Head(tasks))
  /\ worker' = IF /\ currentTransactionId' = NoTransaction
                  /\ noTransactionOperationQueue # <<>>
                 THEN "post" ELSE "idle"
  /\ UNCHANGED noTransactionOperationQueue

(* wrapSqlOperationHandler, any other call: queue for later. *)
QueueForLater ==
  /\ NextTask(Head(tasks))
  /\ Head(tasks).kind \in Kinds \ {"batch"}
  /\ currentTransactionId # NoTransaction /\ ~Admitted(Head(tasks))
  /\ noTransactionOperationQueue' =
       Append(noTransactionOperationQueue, Head(tasks))
  /\ UNCHANGED <<worker, nativeVars, sqliteVars, clientVars>>

(* batch is not wrapped: it runs whatever transaction is active. *)
RunBatch ==
  /\ NextTask(Head(tasks))
  /\ Head(tasks).kind = "batch"
  /\ Run(Head(tasks))
  /\ UNCHANGED <<worker, noTransactionOperationQueue>>

PostRunQueued ==
  /\ worker = "post"
  /\ worker' = "idle"
  /\ tasks' = Append(tasks, RunQueued)
  /\ UNCHANGED <<noTransactionOperationQueue, nativeVars, sqliteVars,
                 clientVars>>

StartRunQueued ==
  /\ NextTask(RunQueued)
  /\ worker' = "drain"
  /\ UNCHANGED <<noTransactionOperationQueue, nativeVars, sqliteVars,
                 clientVars>>

(* Fault injected: the loop does not look at currentTransactionId again. *)
RunQueuedOperationUnguarded ==
  /\ worker = "drain"
  /\ noTransactionOperationQueue # <<>>
  /\ Run(Head(noTransactionOperationQueue))
  /\ noTransactionOperationQueue' = Tail(noTransactionOperationQueue)
  /\ UNCHANGED <<tasks, worker>>

(* One turn of the loop of runQueuedOperations. *)
RunQueuedOperation ==
  /\ worker = "drain"
  /\ currentTransactionId = NoTransaction
  /\ noTransactionOperationQueue # <<>>
  /\ Run(Head(noTransactionOperationQueue))
  /\ noTransactionOperationQueue' = Tail(noTransactionOperationQueue)
  /\ UNCHANGED <<tasks, worker>>

StopRunQueued ==
  /\ worker = "drain"
  /\ \/ currentTransactionId # NoTransaction
     \/ noTransactionOperationQueue = <<>>
  /\ worker' = "idle"
  /\ UNCHANGED <<tasks, noTransactionOperationQueue, nativeVars, sqliteVars,
                 clientVars>>

-----------------------------------------------------------------------------
Worker ==
  \/ RunOutsideTransaction \/ RunInTransaction \/ QueueForLater \/ RunBatch
  \/ PostRunQueued \/ StartRunQueued \/ RunQueuedOperation \/ StopRunQueued

Client(c) ==
  \/ Reopen(c) \/ RollbackRecovered(c) \/ BeginTransaction(c)
  \/ CallOnDatabase(c) \/ CallOnTransaction(c) \/ EndTransaction(c)
  \/ HotRestart(c)

Next == Worker \/ \E c \in Clients : Client(c)

Spec == Init /\ [][Next]_vars

(* The worker thread runs; an isolate finishes opening, and the callback   *)
(* of a transaction ends, so that endTransaction is eventually called.     *)
Fairness ==
  /\ WF_vars(Worker)
  /\ \A c \in Clients : /\ WF_vars(Reopen(c))
                        /\ WF_vars(RollbackRecovered(c))
                        /\ SF_vars(EndTransaction(c))

FairSpec == Spec /\ Fairness
-----------------------------------------------------------------------------
(* Types of the variables. *)
TypeOK ==
  /\ tasks \in Seq(Call \cup {RunQueued})
  /\ worker \in {"idle", "post", "drain"}
  /\ noTransactionOperationQueue \in Seq(Call)
  /\ currentTransactionId \in Nat
  /\ lastTransactionId \in Nat
  /\ transactionDepth \in Int
  /\ openTx \in BOOLEAN
  /\ writes \subseteq Nat \cup {ForceId}
  /\ durable \subseteq Nat \cup {ForceId}
  /\ committed \subseteq Nat \cup {ForceId}
  /\ phase \in [Clients -> {"closed", "recovered", "open"}]
  /\ held \in [Clients -> Nat]
  /\ waiting \in [Clients -> BOOLEAN]
  /\ epoch \in [Clients -> Nat]
  /\ begins \in Nat

(* A parked call is never forgotten: while the queue is not empty, either  *)
(* a transaction is active, whose end looks at the queue, or a             *)
(* runQueuedOperations is running, posted, or about to be posted.          *)
NoLostWakeUp ==
  noTransactionOperationQueue # <<>> =>
    \/ currentTransactionId # NoTransaction
    \/ worker \in {"post", "drain"}
    \/ \E i \in DOMAIN tasks : tasks[i] = RunQueued

(* The two records of "a transaction is active" agree: the depth, which    *)
(* pins the database to a worker and is reported as recoveredInTransaction *)
(* to a reopening isolate, and the current id, which parks calls.          *)
DepthMatchesCurrentTransaction ==
  transactionDepth = IF currentTransactionId = NoTransaction THEN 0 ELSE 1

(* A call of the active transaction is never parked behind that very       *)
(* transaction, where nothing could release it.                            *)
NoSelfDeadlock ==
  currentTransactionId # NoTransaction =>
    \A i \in DOMAIN noTransactionOperationQueue :
      noTransactionOperationQueue[i].tid \notin {currentTransactionId, ForceId}

(* Whatever was written under a transaction id is durable only if the      *)
(* COMMIT of that transaction succeeded.                                   *)
AllOrNothing == durable \subseteq committed \cup {NoTransaction}

(* The transaction protocol of the isolates and the native side together   *)
(* implement a store with one transaction at a time.                       *)
Store == INSTANCE TransactionStore
           WITH active <- IF openTx THEN currentTransactionId
                                    ELSE NoTransaction,
                pending <- writes
ImplementsTransactionStore == Store!Spec

(* No call of an isolate stays unanswered, parked or not, once the         *)
(* isolates stop beginning new transactions.                               *)
CallsAnswered == \A c \in Clients : waiting[c] ~> ~waiting[c]

(* The native side believes in a transaction no isolate holds: a COMMIT    *)
(* has failed, and Dart has given the transaction up.                      *)
TransactionAbandoned ==
  /\ currentTransactionId # NoTransaction
  /\ \A c \in Clients : held[c] # currentTransactionId

(* A call that stays unanswered is parked behind such a transaction.       *)
CallsAnsweredUnlessAbandoned ==
  \A c \in Clients : waiting[c] ~> (~waiting[c] \/ TransactionAbandoned)
=============================================================================
