---------------------------- MODULE DarwinDatabase ----------------------------
(***************************************************************************)
(* One native database of the iOS/macOS plugin (SqfliteDatabase.m), shared *)
(* by the Dart isolates that opened it as a single instance.               *)
(*                                                                         *)
(* A method call becomes a block of a concurrent global queue, which runs  *)
(* its handler on the serial queue of the database: one handler at a time, *)
(* in no particular order.  wrapSqlOperationHandler runs a call at once,   *)
(* or parks it in noTransactionOperationQueue while another transaction is *)
(* active; unlike on Android the handler that ends the transaction empties *)
(* that queue itself, and batch and queryCursorNext are not wrapped.       *)
(*                                                                         *)
(* The Dart side is the protocol of database_mixin.dart: one call in       *)
(* flight per isolate, COMMIT or ROLLBACK sent exactly once, a cursor      *)
(* closed before its transaction ends.  SQLite is external.                *)
(***************************************************************************)
EXTENDS Integers, Sequences, FiniteSets

CONSTANTS
  Clients,            \* the Dart isolates sharing the database
  MaxTransactions,    \* bound on the BEGINs the isolates send
  MaxQueries,         \* bound on the queries the isolates send
  MaxRestarts,        \* bound on the hot restarts of one isolate
  Faults              \* the commands SQLite may fail

ASSUME ConstantsAssumption ==
  /\ MaxTransactions \in Nat /\ MaxQueries \in Nat /\ MaxRestarts \in Nat
  /\ Faults \subseteq {"begin", "commit"}

VARIABLES
  \* SqfliteDatabase.m
  inFlight,           \* calls dispatched, whose handler has not started
  draining,           \* dbRunQueuedOperations is looping
  noTransactionOperationQueue,
  currentTransactionId,
  lastTransactionId,
  inTransaction,      \* what a reopening isolate is told
  cursorMap,          \* ids of the cursors kept open
  lastCursorId,
  \* SQLite
  openTx,             \* a transaction is open on the connection
  writes,             \* who wrote what is uncommitted
  \* the Dart isolates
  phase,              \* "closed", "recovered" or "open"
  held,               \* SqfliteTransaction.transactionId, or none
  cursor,             \* SqfliteQueryCursor.cursorId, or none
  waiting,            \* a method call is unanswered
  epoch,              \* hot restarts so far
  begins, queries     \* sent so far, for the bounds

nativeVars == <<currentTransactionId, lastTransactionId, inTransaction>>
cursorVars == <<cursorMap, lastCursorId>>
sqliteVars == <<openTx, writes>>
clientVars == <<phase, held, cursor, waiting, epoch, begins, queries>>
vars == <<inFlight, draining, noTransactionOperationQueue, nativeVars,
          cursorVars, sqliteVars, clientVars>>

-----------------------------------------------------------------------------
(* nil for ids of transactions and cursors, and transactionIdForce. *)
None == 0
ForceId == -1

(* The writer of what a batch writes: it has passed no check of its id. *)
BatchWriter == -2

(* A call.  Only the forced ROLLBACK of a recovered database has ForceId,  *)
(* and a BEGIN has no transaction id.                                      *)
Wrapped == {"begin", "statement", "query", "commit", "rollback"}
Unwrapped == {"batch", "cursorNext", "cursorCancel"}
Operation ==
  {k \in [kind : Wrapped \cup Unwrapped, client : Clients, epoch : Nat,
          tid : Nat \cup {ForceId}, cursor : Nat] :
     /\ k.kind = "begin" => k.tid = None
     /\ k.tid = ForceId => k.kind = "rollback"}

Init ==
  /\ inFlight = {} /\ draining = FALSE /\ noTransactionOperationQueue = <<>>
  /\ currentTransactionId = None /\ lastTransactionId = 0
  /\ inTransaction = FALSE
  /\ cursorMap = {} /\ lastCursorId = 0
  /\ openTx = FALSE /\ writes = {}
  /\ phase = [c \in Clients |-> "closed"]
  /\ held = [c \in Clients |-> None]
  /\ cursor = [c \in Clients |-> None]
  /\ waiting = [c \in Clients |-> FALSE]
  /\ epoch = [c \in Clients |-> 0]
  /\ begins = 0 /\ queries = 0

-----------------------------------------------------------------------------
(* The isolates. *)

(* handleXxxCall: find the database and dispatch the operation. *)
Invoke(c, kind, tid, id) ==
  /\ ~waiting[c]
  /\ waiting' = [waiting EXCEPT ![c] = TRUE]
  /\ inFlight' = inFlight \cup {[kind |-> kind, client |-> c,
                                 epoch |-> epoch[c], tid |-> tid,
                                 cursor |-> id]}
  /\ begins' = IF kind = "begin" THEN begins + 1 ELSE begins
  /\ queries' = IF kind = "query" THEN queries + 1 ELSE queries
  /\ UNCHANGED <<draining, noTransactionOperationQueue, nativeVars,
                 cursorVars, sqliteVars, phase, held, epoch>>

(* handleOpenDatabaseCall finds the single instance open and answers with  *)
(* its inTransaction, without going through the queues.                    *)
Reopen(c) ==
  /\ phase[c] = "closed"
  /\ phase' = [phase EXCEPT ![c] = IF inTransaction THEN "recovered"
                                                    ELSE "open"]
  /\ UNCHANGED <<inFlight, draining, noTransactionOperationQueue, nativeVars,
                 cursorVars, sqliteVars, held, cursor, waiting, epoch,
                 begins, queries>>

(* The forced ROLLBACK that Dart sends for a recovered database. *)
RollbackRecovered(c) ==
  /\ phase[c] = "recovered"
  /\ Invoke(c, "rollback", ForceId, None)
  /\ UNCHANGED cursor

BeginTransaction(c) ==
  /\ phase[c] = "open" /\ held[c] = None /\ cursor[c] = None
  /\ begins < MaxTransactions
  /\ Invoke(c, "begin", None, None)
  /\ UNCHANGED cursor

(* A statement or a query by page, on the database object or, while the    *)
(* isolate holds a transaction, on the transaction object.                 *)
CallStatement(c) ==
  /\ phase[c] = "open"
  /\ Invoke(c, "statement", held[c], None)
  /\ UNCHANGED cursor

CallBatch(c) ==
  /\ phase[c] = "open"
  /\ Invoke(c, "batch", held[c], None)
  /\ UNCHANGED cursor

QueryCursor(c) ==
  /\ phase[c] = "open" /\ cursor[c] = None /\ queries < MaxQueries
  /\ Invoke(c, "query", held[c], None)
  /\ UNCHANGED cursor

(* moveNext at the end of a page. *)
MoveNext(c) ==
  /\ cursor[c] # None
  /\ Invoke(c, "cursorNext", held[c], cursor[c])
  /\ UNCHANGED cursor

(* close of a cursor: it forgets the id before the call is sent. *)
CloseCursor(c) ==
  /\ cursor[c] # None
  /\ Invoke(c, "cursorCancel", held[c], cursor[c])
  /\ cursor' = [cursor EXCEPT ![c] = None]

(* endTransaction: COMMIT if the callback succeeded, else ROLLBACK. *)
EndTransaction(c) ==
  /\ held[c] # None /\ cursor[c] = None
  /\ \E kind \in {"commit", "rollback"} : Invoke(c, kind, held[c], None)
  /\ UNCHANGED cursor

(* Hot restart: the Dart heap is gone, the native side is not told. *)
HotRestart(c) ==
  /\ epoch[c] < MaxRestarts
  /\ epoch' = [epoch EXCEPT ![c] = @ + 1]
  /\ phase' = [phase EXCEPT ![c] = "closed"]
  /\ held' = [held EXCEPT ![c] = None]
  /\ cursor' = [cursor EXCEPT ![c] = None]
  /\ waiting' = [waiting EXCEPT ![c] = FALSE]
  /\ UNCHANGED <<inFlight, draining, noTransactionOperationQueue, nativeVars,
                 cursorVars, sqliteVars, begins, queries>>

-----------------------------------------------------------------------------
(* The handlers. *)

(* operation.success or .error: an isolate that has restarted since has no *)
(* one to receive it.  Afterwards the isolate holds transaction tid and    *)
(* cursor id.                                                              *)
Reply(k, tid, id) ==
  /\ UNCHANGED <<epoch, begins, queries>>
  /\ IF epoch[k.client] = k.epoch
       THEN /\ waiting' = [waiting EXCEPT ![k.client] = FALSE]
            /\ held' = [held EXCEPT ![k.client] = tid]
            /\ cursor' = [cursor EXCEPT ![k.client] = id]
            /\ phase' = [phase EXCEPT ![k.client] = "open"]
       ELSE UNCHANGED <<phase, held, cursor, waiting>>

(* Fault injected: inTransaction is set before BEGIN is known to succeed. *)
DoBeginFlagFirst(k) ==
  /\ k.kind = "begin"
  /\ lastTransactionId' = lastTransactionId + 1
  /\ inTransaction' = TRUE
  /\ UNCHANGED cursorVars
  /\ \/ /\ ~openTx
        /\ openTx' = TRUE /\ UNCHANGED writes
        /\ currentTransactionId' = lastTransactionId + 1
        /\ Reply(k, lastTransactionId + 1, None)
     \/ /\ openTx \/ "begin" \in Faults
        /\ currentTransactionId' = None
        /\ Reply(k, None, None)
        /\ UNCHANGED sqliteVars

(* dbExecute with inTransaction true and no id: the new id is current      *)
(* while BEGIN runs, and no longer when it fails.                          *)
DoBegin(k) ==
  /\ k.kind = "begin"
  /\ lastTransactionId' = lastTransactionId + 1
  /\ UNCHANGED cursorVars
  /\ \/ /\ ~openTx
        /\ openTx' = TRUE /\ UNCHANGED writes
        /\ currentTransactionId' = lastTransactionId + 1
        /\ inTransaction' = TRUE
        /\ Reply(k, lastTransactionId + 1, None)
     \/ /\ openTx \/ "begin" \in Faults
        /\ currentTransactionId' = None
        /\ Reply(k, None, None)
        /\ UNCHANGED <<inTransaction, sqliteVars>>

(* SQLite keeps a statement in the open transaction, or commits it. *)
Write(writer) ==
  /\ writes' = IF openTx THEN writes \cup {writer} ELSE writes
  /\ UNCHANGED openTx

(* dbInsert, dbUpdate, dbExecute of another statement. *)
DoStatement(k) ==
  /\ k.kind = "statement"
  /\ Write(k.tid) \/ UNCHANGED sqliteVars
  /\ Reply(k, held[k.client], cursor[k.client])
  /\ UNCHANGED <<nativeVars, cursorVars>>

(* dbBatch, which may fail after its first statements have run. *)
DoBatch(k) ==
  /\ k.kind = "batch"
  /\ Write(BatchWriter) \/ UNCHANGED sqliteVars
  /\ Reply(k, held[k.client], cursor[k.client])
  /\ UNCHANGED <<nativeVars, cursorVars>>

(* Fault injected: the id of a cursor is taken without counting. *)
DoQueryReusingId(k) ==
  /\ k.kind = "query"
  /\ UNCHANGED <<nativeVars, sqliteVars, lastCursorId>>
  /\ \/ /\ cursorMap' = cursorMap \cup {lastCursorId + 1}
        /\ Reply(k, held[k.client], lastCursorId + 1)
     \/ UNCHANGED cursorMap /\ Reply(k, held[k.client], None)

(* dbDoQuery: a cursor is kept if the page left rows to read. *)
DoQuery(k) ==
  /\ k.kind = "query"
  /\ UNCHANGED <<nativeVars, sqliteVars>>
  /\ \/ /\ lastCursorId' = lastCursorId + 1
        /\ cursorMap' = cursorMap \cup {lastCursorId + 1}
        /\ Reply(k, held[k.client], lastCursorId + 1)
     \/ UNCHANGED cursorVars /\ Reply(k, held[k.client], None)

(* dbQueryCursorNext: the next page of a known cursor, the last of which   *)
(* closes it; or no page: an error, or a cursor that is not found, which   *)
(* is answered as a success with a FlutterError for its value.             *)
DoCursorNext(k) ==
  /\ k.kind = "cursorNext"
  /\ UNCHANGED <<nativeVars, sqliteVars, lastCursorId>>
  /\ \/ UNCHANGED cursorMap /\ Reply(k, held[k.client], k.cursor)
     \/ /\ k.cursor \in cursorMap
        /\ cursorMap' = cursorMap \ {k.cursor}
        /\ Reply(k, held[k.client], None)

(* dbQueryCursorNext with cancel: closeCursorById. *)
DoCursorCancel(k) ==
  /\ k.kind = "cursorCancel"
  /\ cursorMap' = cursorMap \ {k.cursor}
  /\ Reply(k, held[k.client], None)
  /\ UNCHANGED <<nativeVars, sqliteVars, lastCursorId>>

(* Fault injected: the id is overwritten with that of the forced ROLLBACK. *)
LeaveTransactionToForce(k) ==
  /\ openTx
  /\ openTx' = FALSE /\ writes' = {}
  /\ currentTransactionId' = IF k.tid = ForceId THEN ForceId ELSE None

(* dbExecute: a COMMIT or ROLLBACK that succeeds. *)
LeaveTransaction(k) ==
  /\ openTx
  /\ openTx' = FALSE /\ writes' = {}
  /\ currentTransactionId' = None

(* dbExecute with inTransaction false: a success ends the transaction;     *)
(* the flag is reset in any case.                                          *)
DoCommit(k) ==
  /\ k.kind = "commit"
  /\ inTransaction' = FALSE
  /\ \/ LeaveTransaction(k)
     \/ /\ ~openTx \/ "commit" \in Faults
        /\ UNCHANGED <<currentTransactionId, sqliteVars>>
  /\ Reply(k, None, cursor[k.client])
  /\ UNCHANGED <<lastTransactionId, cursorVars>>

DoRollback(k) ==
  /\ k.kind = "rollback"
  /\ inTransaction' = FALSE
  /\ \/ LeaveTransaction(k)
     \/ ~openTx /\ UNCHANGED <<currentTransactionId, sqliteVars>>
  /\ Reply(k, None, cursor[k.client])
  /\ UNCHANGED <<lastTransactionId, cursorVars>>

Run(k) == DoBegin(k) \/ DoStatement(k) \/ DoQuery(k) \/ DoCommit(k) \/ DoRollback(k)

-----------------------------------------------------------------------------
(* The serial queue: any call in flight may be the next on it. *)
NextBlock(k) ==
  /\ ~draining
  /\ k \in inFlight /\ inFlight' = inFlight \ {k}

(* wrapSqlOperationHandler, no transaction active: the id is ignored. *)
RunOutsideTransaction(k) ==
  /\ NextBlock(k) /\ k.kind \in Wrapped
  /\ currentTransactionId = None
  /\ Run(k)
  /\ UNCHANGED <<draining, noTransactionOperationQueue>>

(* Fault injected: a call without an id is let into the transaction. *)
AdmittedWithoutId(k) == k.tid \in {currentTransactionId, ForceId, None}

Admitted(k) == k.tid \in {currentTransactionId, ForceId}

(* Fault injected: the queue is not looked at when a transaction ends. *)
RunInTransactionOnly(k) ==
  /\ NextBlock(k) /\ k.kind \in Wrapped
  /\ currentTransactionId # None /\ Admitted(k)
  /\ Run(k)
  /\ UNCHANGED <<draining, noTransactionOperationQueue>>

(* wrapSqlOperationHandler, a call of the active transaction: if it ended  *)
(* the transaction, the same block goes on with the parked calls.          *)
RunInTransaction(k) ==
  /\ NextBlock(k) /\ k.kind \in Wrapped
  /\ currentTransactionId # None /\ Admitted(k)
  /\ Run(k)
  /\ draining' = (/\ currentTransactionId' = None
                  /\ noTransactionOperationQueue # <<>>)
  /\ UNCHANGED noTransactionOperationQueue

(* wrapSqlOperationHandler, any other call: queue for later. *)
QueueForLater(k) ==
  /\ NextBlock(k) /\ k.kind \in Wrapped
  /\ currentTransactionId # None /\ ~Admitted(k)
  /\ noTransactionOperationQueue' = Append(noTransactionOperationQueue, k)
  /\ UNCHANGED <<draining, nativeVars, cursorVars, sqliteVars, clientVars>>

(* batch and queryCursorNext run whatever transaction is active. *)
RunUnwrapped(k) ==
  /\ NextBlock(k)
  /\ DoBatch(k) \/ DoCursorNext(k) \/ DoCursorCancel(k)
  /\ UNCHANGED <<draining, noTransactionOperationQueue>>

(* Fault injected: the loop does not look at currentTransactionId again. *)
RunQueuedOperationUnguarded ==
  /\ draining
  /\ noTransactionOperationQueue # <<>>
  /\ Run(Head(noTransactionOperationQueue))
  /\ noTransactionOperationQueue' = Tail(noTransactionOperationQueue)
  /\ UNCHANGED <<inFlight, draining>>

(* One turn of the loop of dbRunQueuedOperations. *)
RunQueuedOperation ==
  /\ draining
  /\ currentTransactionId = None
  /\ noTransactionOperationQueue # <<>>
  /\ Run(Head(noTransactionOperationQueue))
  /\ noTransactionOperationQueue' = Tail(noTransactionOperationQueue)
  /\ UNCHANGED <<inFlight, draining>>

StopRunQueued ==
  /\ draining
  /\ currentTransactionId # None \/ noTransactionOperationQueue = <<>>
  /\ draining' = FALSE
  /\ UNCHANGED <<inFlight, noTransactionOperationQueue, nativeVars,
                 cursorVars, sqliteVars, clientVars>>

-----------------------------------------------------------------------------
Handle(k) ==
  \/ RunOutsideTransaction(k) \/ RunInTransaction(k)
  \/ QueueForLater(k) \/ RunUnwrapped(k)

Queue == RunQueuedOperation \/ StopRunQueued \/ \E k \in inFlight : Handle(k)

Client(c) ==
  \/ Reopen(c) \/ RollbackRecovered(c) \/ BeginTransaction(c)
  \/ CallStatement(c) \/ CallBatch(c) \/ QueryCursor(c) \/ MoveNext(c)
  \/ CloseCursor(c) \/ EndTransaction(c) \/ HotRestart(c)

Next == Queue \/ \E c \in Clients : Client(c)

Spec == Init /\ [][Next]_vars

-----------------------------------------------------------------------------
(* Types of the variables. *)
TypeOK ==
  /\ inFlight \subseteq Operation
  /\ draining \in BOOLEAN
  /\ noTransactionOperationQueue \in Seq({k \in Operation : k.kind \in Wrapped})
  /\ currentTransactionId \in Nat
  /\ lastTransactionId \in Nat
  /\ inTransaction \in BOOLEAN
  /\ cursorMap \subseteq Nat
  /\ lastCursorId \in Nat
  /\ openTx \in BOOLEAN
  /\ writes \subseteq Int
  /\ phase \in [Clients -> {"closed", "recovered", "open"}]
  /\ held \in [Clients -> Nat]
  /\ cursor \in [Clients -> Nat]
  /\ waiting \in [Clients -> BOOLEAN]
  /\ epoch \in [Clients -> Nat]
  /\ begins \in Nat
  /\ queries \in Nat

(* A parked call is never forgotten: while the queue is not empty, either  *)
(* a transaction is active, whose end looks at the queue, or the loop is   *)
(* emptying it.                                                            *)
NoLostWakeUp ==
  noTransactionOperationQueue # <<>> =>
    currentTransactionId # None \/ draining

(* What the wrapper lets into an open transaction comes from the isolate   *)
(* that holds it, whatever the order in which the blocks run, and also     *)
(* after restarts and forced ROLLBACKs.  Batches pass no wrapper.          *)
OneWriterPerTransaction ==
  openTx => writes \subseteq {currentTransactionId, BatchWriter}

(* What a reopening isolate is told: "in transaction" only if SQLite is in *)
(* the transaction the native side knows; and "not in transaction" while   *)
(* SQLite is in one only if its isolate has given it up, after a COMMIT    *)
(* that failed.                                                            *)
RecoveredStateIsRight ==
  /\ inTransaction => openTx /\ currentTransactionId # None
  /\ openTx /\ ~inTransaction => \A c \in Clients : held[c] # currentTransactionId

(* A cursor an isolate holds is open, so that its next page is found; and, *)
(* unless an isolate has restarted, a cursor kept open on the native side  *)
(* is held or about to be closed, and by one isolate only.                 *)
CursorsAccountedFor ==
  /\ \A c \in Clients : cursor[c] # None => cursor[c] \in cursorMap
  /\ \A c, d \in Clients : cursor[c] = cursor[d] /\ cursor[c] # None => c = d
  /\ \A id \in cursorMap :
       \/ \E c \in Clients : cursor[c] = id \/ epoch[c] > 0
       \/ \E k \in inFlight : k.kind = "cursorCancel" /\ k.cursor = id
=============================================================================
