------------------------------ MODULE FfiDatabase ------------------------------
(***************************************************************************)
(* SqfliteFfiDatabase (sqflite_ffi_impl.dart): a database in the sqflite   *)
(* isolate of the FFI implementation.                                      *)
(*                                                                         *)
(* The isolate's event loop takes one message at a time from its port.     *)
(* What a handler awaits is already complete (SQLite is called directly,   *)
(* the handler lock is free), so a message, and the queued handlers it     *)
(* releases, are done before the next message.                             *)
(*                                                                         *)
(* SQLite is external: at most one transaction is open on a connection.    *)
(***************************************************************************)
EXTENDS Integers, Sequences

CONSTANTS
  Callers,            \* who waits for the answer of a call
  Faults              \* what SQLite may do to a legal command

ASSUME FaultsAssumption == Faults \subseteq {"begin", "commit", "autoRollback"}

VARIABLES
  port,               \* the isolate's port
  answer,             \* the answer to each caller's last call
  noTransactionHandlerQueue,
  runningQueued,      \* _runQueuedHandlers is running
  currentTransactionId,
  lastTransactionId,
  isOpen,             \* the SQLite connection is
  openTx,             \* a transaction is open on it
  writes,             \* transaction ids of its uncommitted statements
  durable,            \* transaction ids of the statements made durable
  committed           \* ids whose COMMIT succeeded

idVars == <<currentTransactionId, lastTransactionId>>
queueVars == <<noTransactionHandlerQueue, runningQueued>>
sqliteVars == <<isOpen, openTx, writes, durable, committed>>
ffiVars == <<port, answer, queueVars, idVars, sqliteVars>>

-----------------------------------------------------------------------------
NoTransaction == 0                  \* null
ForceId == -1                       \* paramTransactionIdValueForce

Statements == {"statement", "batch", "batchContinue"}
Kinds == {"begin", "commit", "rollback", "close"} \cup Statements
Message == [kind : Kinds, from : Callers, tid : Nat \cup {ForceId}]

NoAnswer == [ok |-> FALSE, closed |-> FALSE, id |-> ForceId]
AnswerType == [ok : BOOLEAN, closed : BOOLEAN, id : Nat] \cup {NoAnswer}

FfiInit ==
  /\ port = <<>> /\ answer = [c \in Callers |-> NoAnswer]
  /\ noTransactionHandlerQueue = <<>> /\ runningQueued = FALSE
  /\ currentTransactionId = NoTransaction /\ lastTransactionId = 0
  /\ isOpen = TRUE /\ openTx = FALSE
  /\ writes = {} /\ durable = {} /\ committed = {}

Post(kind, c, tid) ==
  /\ port' = Append(port, [kind |-> kind, from |-> c, tid |-> tid])
  /\ UNCHANGED <<queueVars, idVars, sqliteVars>>

(* The answer is taken by the future that waits for it. *)
Answered(c) ==
  /\ answer[c] # NoAnswer
  /\ answer' = [answer EXCEPT ![c] = NoAnswer]
  /\ UNCHANGED <<queueVars, idVars, sqliteVars>>

Answer(m, ok, closed, id) ==
  answer' = [answer EXCEPT ![m.from] =
               [ok |-> ok, closed |-> closed, id |-> id]]

-----------------------------------------------------------------------------
(* The handlers. *)

(* Fault injected: a transaction SQLite has rolled back is not noticed. *)
ThrowUnchecked(m) ==
  /\ UNCHANGED currentTransactionId
  /\ Answer(m, FALSE, FALSE, NoTransaction)

(* handleTransactionId looks at autocommit after a SqliteException, and a  *)
(* batch that continues on error after each of them; a batch that stops at *)
(* its first error throws another exception.                               *)
TransactionClosed(m) ==
  /\ isOpen /\ ~openTx' /\ currentTransactionId # NoTransaction
  /\ m.kind # "batch"

Throw(m) ==
  /\ currentTransactionId' = IF TransactionClosed(m) THEN NoTransaction
                                                     ELSE currentTransactionId
  /\ Answer(m, FALSE, TransactionClosed(m), NoTransaction)

HandleBegin(m) ==
  /\ m.kind = "begin"
  /\ lastTransactionId' = lastTransactionId + 1
  /\ \/ /\ isOpen /\ ~openTx /\ openTx' = TRUE
        /\ currentTransactionId' = lastTransactionId + 1
        /\ Answer(m, TRUE, FALSE, lastTransactionId + 1)
        /\ UNCHANGED <<isOpen, writes, durable, committed>>
     \/ /\ ~isOpen \/ openTx \/ "begin" \in Faults
        /\ currentTransactionId' = NoTransaction
        /\ Answer(m, FALSE, FALSE, NoTransaction)
        /\ UNCHANGED sqliteVars

Write(tid) ==
  /\ isOpen
  /\ IF openTx THEN writes' = writes \cup {tid} /\ UNCHANGED durable
               ELSE durable' = durable \cup {tid} /\ UNCHANGED writes
  /\ UNCHANGED <<isOpen, openTx, committed>>

(* Conflict clause OR ROLLBACK, disk full. *)
AutoRollback ==
  /\ "autoRollback" \in Faults /\ openTx
  /\ openTx' = FALSE /\ writes' = {}
  /\ UNCHANGED <<isOpen, durable, committed>>

(* handleInsert, handleUpdate, handleQuery, handleBatch, and handleExecute *)
(* of another statement.  A batch may have written before it fails; one    *)
(* that continues on error fails only for a transaction it finds closed.   *)
HandleStatement(m) ==
  /\ m.kind \in Statements
  /\ UNCHANGED lastTransactionId
  /\ \/ /\ Write(m.tid) \/ UNCHANGED sqliteVars
        /\ isOpen \/ m.kind = "batchContinue"
        /\ Answer(m, TRUE, FALSE, NoTransaction)
        /\ UNCHANGED currentTransactionId
     \/ /\ \/ UNCHANGED sqliteVars \/ AutoRollback
           \/ m.kind # "statement" /\ Write(m.tid)
        /\ m.kind = "batchContinue" => TransactionClosed(m)
        /\ Throw(m)

(* Fault injected: the id is set to the forced one instead of to null. *)
LeaveTransactionToForce(m) ==
  /\ openTx /\ openTx' = FALSE /\ writes' = {}
  /\ currentTransactionId' = ForceId
  /\ Answer(m, TRUE, FALSE, NoTransaction)
  /\ UNCHANGED <<isOpen, lastTransactionId>>

LeaveTransaction(m) ==
  /\ openTx /\ openTx' = FALSE /\ writes' = {}
  /\ currentTransactionId' = NoTransaction
  /\ Answer(m, TRUE, FALSE, NoTransaction)
  /\ UNCHANGED <<isOpen, lastTransactionId>>

HandleCommit(m) ==
  /\ m.kind = "commit"
  /\ \/ /\ LeaveTransaction(m)
        /\ durable' = durable \cup writes
        /\ committed' = committed \cup {m.tid}
     \/ /\ ~openTx \/ "commit" \in Faults
        /\ UNCHANGED <<sqliteVars, lastTransactionId>> /\ Throw(m)

HandleRollback(m) ==
  /\ m.kind = "rollback"
  /\ \/ LeaveTransaction(m) /\ UNCHANGED <<durable, committed>>
     \/ ~openTx /\ UNCHANGED <<sqliteVars, lastTransactionId>> /\ Throw(m)

Run(m) ==
  HandleBegin(m) \/ HandleStatement(m) \/ HandleCommit(m) \/ HandleRollback(m)

-----------------------------------------------------------------------------
(* The isolate. *)
NextMessage(m) ==
  /\ ~runningQueued /\ port # <<>>
  /\ m = Head(port) /\ port' = Tail(port)

(* handleTransactionId: no transaction, the id is ignored. *)
HandleOutside(m) ==
  /\ NextMessage(m) /\ m.kind # "close"
  /\ currentTransactionId = NoTransaction
  /\ Run(m)
  /\ UNCHANGED queueVars

Admitted(m) == m.tid \in {currentTransactionId, ForceId}

(* Fault injected: the queued handlers are not run. *)
HandleInTransactionOnly(m) ==
  /\ NextMessage(m) /\ m.kind # "close"
  /\ currentTransactionId # NoTransaction /\ Admitted(m)
  /\ Run(m)
  /\ UNCHANGED queueVars

(* handleTransactionId: a call of the transaction; once it has ended the   *)
(* queued handlers run.                                                    *)
HandleInTransaction(m) ==
  /\ NextMessage(m) /\ m.kind # "close"
  /\ currentTransactionId # NoTransaction /\ Admitted(m)
  /\ Run(m)
  /\ runningQueued' = (/\ currentTransactionId' = NoTransaction
                       /\ noTransactionHandlerQueue # <<>>)
  /\ UNCHANGED noTransactionHandlerQueue

(* handleTransactionId: any other call is queued for later. *)
QueueHandler(m) ==
  /\ NextMessage(m) /\ m.kind # "close"
  /\ currentTransactionId # NoTransaction /\ ~Admitted(m)
  /\ noTransactionHandlerQueue' = Append(noTransactionHandlerQueue, m)
  /\ UNCHANGED <<answer, runningQueued, idVars, sqliteVars>>

(* Fault injected: one queued handler is run, not all. *)
RunQueuedHandlerOnce ==
  /\ runningQueued /\ runningQueued' = FALSE
  /\ Run(Head(noTransactionHandlerQueue))
  /\ noTransactionHandlerQueue' = Tail(noTransactionHandlerQueue)
  /\ UNCHANGED port

(* One turn of the loop of _runQueuedHandlers, and whether it goes on. *)
RunQueuedHandler ==
  /\ runningQueued
  /\ Run(Head(noTransactionHandlerQueue))
  /\ noTransactionHandlerQueue' = Tail(noTransactionHandlerQueue)
  /\ runningQueued' = (/\ Tail(noTransactionHandlerQueue) # <<>>
                       /\ currentTransactionId' = NoTransaction)
  /\ UNCHANGED port

(* handleCloseDatabase: the queued handlers are cancelled with an error,   *)
(* the connection is closed; the database stays in ffiDbs.                 *)
HandleClose(m) ==
  /\ NextMessage(m) /\ m.kind = "close"
  /\ isOpen' = FALSE /\ openTx' = FALSE /\ writes' = {}
  /\ LET cancelled == {noTransactionHandlerQueue[i].from :
                         i \in DOMAIN noTransactionHandlerQueue}
     IN answer' = [c \in Callers |->
                     IF c = m.from \/ c \in cancelled
                       THEN [ok |-> c = m.from, closed |-> FALSE,
                             id |-> NoTransaction]
                       ELSE answer[c]]
  /\ UNCHANGED <<queueVars, idVars, durable, committed>>

Isolate ==
  \/ RunQueuedHandler
  \/ LET m == Head(port) IN
     HandleOutside(m) \/ HandleInTransaction(m) \/ QueueHandler(m)
     \/ HandleClose(m)

-----------------------------------------------------------------------------
(* Types of the isolate's variables. *)
FfiTypeOK ==
  /\ port \in Seq(Message)
  /\ answer \in [Callers -> AnswerType]
  /\ noTransactionHandlerQueue \in Seq(Message)
  /\ runningQueued \in BOOLEAN
  /\ currentTransactionId \in Nat /\ lastTransactionId \in Nat
  /\ isOpen \in BOOLEAN /\ openTx \in BOOLEAN
  /\ writes \subseteq Nat \cup {ForceId}
  /\ durable \subseteq Nat \cup {ForceId}
  /\ committed \subseteq Nat \cup {ForceId}
=============================================================================
