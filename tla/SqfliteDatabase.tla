---------------------------- MODULE SqfliteDatabase ----------------------------
(***************************************************************************)
(* SqfliteDatabaseMixin (database_mixin.dart): the Dart Database objects   *)
(* of one opened database, on top of the sqflite isolate (module Ffi-      *)
(* Database).  Two isolates that opened a single instance each have a      *)
(* Database object, with a lock of its own.                                *)
(*                                                                         *)
(* A caller is an asynchronous function of the application: it calls the   *)
(* database, runs a transaction, makes calls on the transaction object of  *)
(* its own callback or of another one, or closes the database.  It is at:  *)
(*    "idle", "waiting" for _rawLock, or waiting for an answer, named by   *)
(*    the call: "statement" (on the database), "begin", "txnCall", "end",  *)
(*    "forceRollback", "close"; in the "callback" of its transaction, or   *)
(*    "finished" with it; or "closing", between the forced ROLLBACK and    *)
(*    the close.                                                           *)
(***************************************************************************)
EXTENDS FfiDatabase

CONSTANTS
  Databases,          \* the Dart Database objects
  DatabaseOf,         \* the one each caller uses
  PlainCalls,         \* what is called on the database
  TransactionCalls,   \* what is called on a transaction
  Closes,             \* the callers close the database
  Overlap,            \* two calls may be in flight on a transaction
  MaxTransactions     \* bound on the BEGINs sent

ASSUME ConstantsAssumption ==
  /\ DatabaseOf \in [Callers -> Databases]
  /\ PlainCalls \subseteq Statements /\ TransactionCalls \subseteq Statements
  /\ Closes \in BOOLEAN /\ Overlap \in BOOLEAN
  /\ MaxTransactions \in Nat
  /\ Closes => \A d, e \in Databases : d = e

VARIABLES
  isClosed, inTransaction,
  rawLock,            \* _rawLock: its holder, then those that wait for it
  at,                 \* where each caller is
  wanted,             \* what it waits for the lock for, or "none"
  transaction,        \* its last SqfliteTransaction
  on,                 \* the transaction its call is on: owner and id
  begins              \* BEGINs sent so far, for the bound

dartVars == <<isClosed, inTransaction, rawLock, at, wanted, transaction, on,
              begins>>
vars == <<ffiVars, dartVars>>

-----------------------------------------------------------------------------
Places == {"idle", "waiting", "statement", "begin", "callback", "finished",
           "txnCall", "end", "forceRollback", "closing", "close"}
Wishes == Kinds \cup {"none"}

(* A transaction object nothing reads again, and a call that is on none. *)
Over == [id |-> NoTransaction, closed |-> TRUE]
OnNone(c) == [owner |-> c, id |-> NoTransaction]

Init ==
  /\ FfiInit
  /\ isClosed = [d \in Databases |-> FALSE]
  /\ inTransaction = [d \in Databases |-> FALSE]
  /\ rawLock = [d \in Databases |-> <<>>]
  /\ at = [c \in Callers |-> "idle"]
  /\ wanted = [c \in Callers |-> "none"]
  /\ transaction = [c \in Callers |-> Over]
  /\ on = [c \in Callers |-> OnNone(c)]
  /\ begins = 0

Goto(c, place) == at' = [at EXCEPT ![c] = place]

Release(d) == rawLock' = [rawLock EXCEPT ![d] = Tail(@)]

(* The lock is c's: txnExecute of BEGIN, which sets inTransaction before   *)
(* it invokes; a statement on the database; the ROLLBACK of close.         *)
Enter(c, what) ==
  /\ UNCHANGED answer
  /\ CASE what = "begin" ->
            /\ inTransaction' = [inTransaction EXCEPT ![DatabaseOf[c]] = TRUE]
            /\ Goto(c, "begin") /\ Post("begin", c, NoTransaction)
            /\ begins' = begins + 1
       [] what = "rollback" ->
            /\ Goto(c, "forceRollback") /\ Post("rollback", c, ForceId)
            /\ UNCHANGED <<inTransaction, begins>>
       [] OTHER ->
            /\ Goto(c, "statement") /\ Post(what, c, NoTransaction)
            /\ UNCHANGED <<inTransaction, begins>>

(* Fault injected: the lock is not waited for. *)
SynchronizedUnlocked(c, what) ==
  /\ rawLock' = [rawLock EXCEPT ![DatabaseOf[c]] = Append(@, c)]
  /\ Enter(c, what) /\ UNCHANGED wanted

(* txnSynchronized without a transaction. *)
Synchronized(c, what) ==
  LET d == DatabaseOf[c] IN
  /\ rawLock' = [rawLock EXCEPT ![d] = Append(@, c)]
  /\ IF rawLock[d] = <<>>
       THEN Enter(c, what) /\ UNCHANGED wanted
       ELSE /\ Goto(c, "waiting") /\ wanted' = [wanted EXCEPT ![c] = what]
            /\ UNCHANGED <<ffiVars, inTransaction, begins>>

-----------------------------------------------------------------------------
(* Calls on the database. *)

(* checkNotClosed, which a batch does not call. *)
NotClosed(c, kind) ==
  kind \in {"statement", "begin"} => ~isClosed[DatabaseOf[c]]

CallDatabase(c) ==
  /\ at[c] = "idle"
  /\ \/ \E kind \in PlainCalls : NotClosed(c, kind) /\ Synchronized(c, kind)
     \/ begins < MaxTransactions /\ NotClosed(c, "begin")
        /\ Synchronized(c, "begin")
  /\ UNCHANGED <<isClosed, transaction, on>>

(* The lock is given to the first of those that wait for it. *)
Granted(c) ==
  /\ at[c] = "waiting" /\ Head(rawLock[DatabaseOf[c]]) = c
  /\ Enter(c, wanted[c])
  /\ wanted' = [wanted EXCEPT ![c] = "none"]
  /\ UNCHANGED <<isClosed, rawLock, transaction, on>>

CallAnswered(c) ==
  /\ at[c] = "statement" /\ Answered(c)
  /\ Release(DatabaseOf[c]) /\ Goto(c, "idle")
  /\ UNCHANGED <<port, isClosed, inTransaction, wanted, transaction, on,
                 begins>>

-----------------------------------------------------------------------------
(* A transaction. *)

(* Fault injected: a BEGIN that failed keeps the lock. *)
BeganKeepLock(c) ==
  /\ at[c] = "begin" /\ Answered(c)
  /\ IF answer[c].ok
       THEN /\ transaction' = [transaction EXCEPT
                                 ![c] = [id |-> answer[c].id, closed |-> FALSE]]
            /\ Goto(c, "callback")
       ELSE Goto(c, "idle") /\ UNCHANGED transaction
  /\ UNCHANGED <<port, isClosed, inTransaction, rawLock, wanted, on, begins>>

(* beginTransaction is done: the callback starts, or, with the flag left   *)
(* as it is, the error is thrown.                                          *)
Began(c) ==
  /\ at[c] = "begin" /\ Answered(c)
  /\ IF answer[c].ok
       THEN /\ transaction' = [transaction EXCEPT
                                 ![c] = [id |-> answer[c].id, closed |-> FALSE]]
            /\ Goto(c, "callback") /\ UNCHANGED rawLock
       ELSE /\ Release(DatabaseOf[c]) /\ Goto(c, "idle")
            /\ UNCHANGED transaction
  /\ UNCHANGED <<port, isClosed, inTransaction, wanted, on, begins>>

InFlightOn(o) == {c \in Callers : at[c] = "txnCall" /\ on[c].owner = o}

InCallback(o) == at[o] = "callback" \/ o \in InFlightOn(o)

(* A call on o's transaction object, by its callback or another function.  *)
CallOnTransaction(c, o) ==
  /\ DatabaseOf[c] = DatabaseOf[o]
  /\ IF c = o THEN at[c] = "callback" ELSE at[c] = "idle"
  /\ InCallback(o)
  /\ Overlap \/ InFlightOn(o) = {}
  /\ ~transaction[o].closed
  /\ \E kind \in TransactionCalls :
       /\ NotClosed(c, kind)
       /\ Post(kind, c, transaction[o].id)
  /\ on' = [on EXCEPT ![c] = [owner |-> o, id |-> transaction[o].id]]
  /\ Goto(c, "txnCall")
  /\ UNCHANGED <<answer, isClosed, inTransaction, rawLock, wanted, transaction,
                 begins>>

(* Fault injected: transactionClosed of the exception is ignored. *)
TransactionCallAnsweredUnmarked(c) ==
  /\ at[c] = "txnCall" /\ Answered(c)
  /\ Goto(c, IF on[c].owner = c THEN "callback" ELSE "idle")
  /\ on' = [on EXCEPT ![c] = OnNone(c)]
  /\ UNCHANGED <<port, isClosed, inTransaction, rawLock, wanted, transaction,
                 begins>>

(* The exception of a call may say that the transaction is closed. *)
TransactionCallAnswered(c) ==
  LET o == on[c].owner IN
  /\ at[c] = "txnCall" /\ Answered(c)
  /\ transaction' =
       IF answer[c].closed /\ transaction[o].id = on[c].id
         THEN [transaction EXCEPT ![o].closed = TRUE] ELSE transaction
  /\ Goto(c, IF o = c THEN "callback" ELSE "idle")
  /\ on' = [on EXCEPT ![c] = OnNone(c)]
  /\ UNCHANGED <<port, isClosed, inTransaction, rawLock, wanted, begins>>

(* The callback makes no more calls, and awaits those in flight. *)
FinishCallback(c) ==
  /\ at[c] = "callback" /\ Goto(c, "finished")
  /\ UNCHANGED <<ffiVars, isClosed, inTransaction, rawLock, wanted, transaction,
                 on, begins>>

(* The callback is done: endTransaction resets the flag, then sends COMMIT *)
(* or ROLLBACK, unless it finds the transaction closed.                    *)
EndTransaction(c) ==
  /\ at[c] = "finished" /\ InFlightOn(c) = {}
  /\ inTransaction' = [inTransaction EXCEPT ![DatabaseOf[c]] = FALSE]
  /\ IF transaction[c].closed
       THEN /\ Release(DatabaseOf[c]) /\ Goto(c, "idle")
            /\ transaction' = [transaction EXCEPT ![c] = Over]
            /\ UNCHANGED ffiVars
       ELSE /\ Goto(c, "end") /\ UNCHANGED <<answer, rawLock, transaction>>
            /\ \E kind \in {"commit", "rollback"} :
                 Post(kind, c, transaction[c].id)
  /\ UNCHANGED <<isClosed, wanted, on, begins>>

Ended(c) ==
  /\ at[c] = "end" /\ Answered(c)
  /\ transaction' = [transaction EXCEPT ![c] = Over]
  /\ Release(DatabaseOf[c]) /\ Goto(c, "idle")
  /\ UNCHANGED <<port, isClosed, inTransaction, wanted, on, begins>>

-----------------------------------------------------------------------------
(* _closeDatabase. *)

SendClose(c) == Goto(c, "close") /\ Post("close", c, NoTransaction)

(* Fault injected: nothing is rolled back. *)
CloseNow(c) ==
  LET d == DatabaseOf[c] IN
  /\ Closes /\ at[c] = "idle" /\ ~isClosed[d]
  /\ isClosed' = [isClosed EXCEPT ![d] = TRUE]
  /\ SendClose(c)
  /\ UNCHANGED <<answer, inTransaction, rawLock, wanted, transaction,
                 on, begins>>

(* The flag decides whether a pending transaction is rolled back first. *)
Close(c) ==
  LET d == DatabaseOf[c] IN
  /\ Closes /\ at[c] = "idle" /\ ~isClosed[d]
  /\ isClosed' = [isClosed EXCEPT ![d] = TRUE]
  /\ IF inTransaction[d]
       THEN Synchronized(c, "rollback")
       ELSE /\ SendClose(c)
            /\ UNCHANGED <<answer, inTransaction, rawLock, wanted, begins>>
  /\ UNCHANGED <<transaction, on>>

RolledBack(c) ==
  /\ at[c] = "forceRollback" /\ Answered(c)
  /\ Release(DatabaseOf[c]) /\ Goto(c, "closing")
  /\ UNCHANGED <<port, isClosed, inTransaction, wanted, transaction, on,
                 begins>>

InvokeCloseDatabase(c) ==
  /\ at[c] = "closing" /\ SendClose(c)
  /\ UNCHANGED <<answer, isClosed, inTransaction, rawLock, wanted, transaction,
                 on, begins>>

Closed(c) ==
  /\ at[c] = "close" /\ Answered(c) /\ Goto(c, "idle")
  /\ UNCHANGED <<port, isClosed, inTransaction, rawLock, wanted, transaction,
                 on, begins>>

-----------------------------------------------------------------------------
IsolateStep == Isolate /\ UNCHANGED dartVars

(* What a caller does without the application asking for more. *)
Continue(c) ==
  \/ Granted(c) \/ CallAnswered(c) \/ Began(c) \/ TransactionCallAnswered(c)
  \/ EndTransaction(c) \/ Ended(c)
  \/ RolledBack(c) \/ InvokeCloseDatabase(c) \/ Closed(c)

Caller(c) ==
  \/ CallDatabase(c) \/ (\E o \in Callers : CallOnTransaction(c, o))
  \/ FinishCallback(c) \/ Close(c) \/ Continue(c)

Next == IsolateStep \/ \E c \in Callers : Caller(c)

Spec == Init /\ [][Next]_vars

(* The isolate and the event loop of the callers run; a callback does not  *)
(* make calls for ever.                                                    *)
Fairness ==
  /\ WF_vars(IsolateStep)
  /\ \A c \in Callers : WF_vars(Continue(c)) /\ SF_vars(FinishCallback(c))

FairSpec == Spec /\ Fairness
-----------------------------------------------------------------------------
(* Types of the variables. *)
TypeOK ==
  /\ FfiTypeOK
  /\ isClosed \in [Databases -> BOOLEAN]
  /\ inTransaction \in [Databases -> BOOLEAN]
  /\ rawLock \in [Databases -> Seq(Callers)]
  /\ at \in [Callers -> Places]
  /\ wanted \in [Callers -> Wishes]
  /\ transaction \in [Callers -> [id : Nat, closed : BOOLEAN]]
  /\ on \in [Callers -> [owner : Callers, id : Nat]]
  /\ begins \in Nat

Sent == {port[i] : i \in DOMAIN port}
        \cup {noTransactionHandlerQueue[i] :
                i \in DOMAIN noTransactionHandlerQueue}

(* The message is the close, or one of the call of the lock's holder or of *)
(* a call on its transaction.                                              *)
InTurn(m) ==
  LET lock == rawLock[DatabaseOf[m.from]] IN
  \/ m.kind = "close"
  \/ /\ lock # <<>>
     /\ m.from = Head(lock) \/ m.from \in InFlightOn(Head(lock))

(* What a Database object has sent to the isolate and is not yet done      *)
(* belongs to the holder of its lock, as long as the connection is open.   *)
(* (The close answers what is parked, and the lock is released with it     *)
(* still in the queue.)  handling_errors.md:142: "Each action runs one     *)
(* after the other".                                                       *)
ActionsDoNotOverlap == isOpen => \A m \in Sent : InTurn(m)

(* A handler parked in the isolate is never forgotten: a transaction is    *)
(* active, whose end runs the queue, or the queue is running.              *)
NoLostWakeUp ==
  noTransactionHandlerQueue # <<>> =>
    currentTransactionId # NoTransaction \/ runningQueued

(* Database objects and isolate together implement a store with one        *)
(* transaction at a time.                                                  *)
Store == INSTANCE TransactionStore
           WITH Ids <- Nat \ {NoTransaction},
                active <- IF openTx THEN currentTransactionId
                                    ELSE NoTransaction,
                pending <- writes
ImplementsTransactionStore == Store!Spec

(* The COMMIT of the isolate's transaction has failed: no caller knows the *)
(* transaction, but for one that is being told so.                         *)
CommitFailed ==
  /\ currentTransactionId # NoTransaction
  /\ \A c \in Callers :
       currentTransactionId \in {transaction[c].id, answer[c].id}
         => at[c] = "end" /\ answer[c] # NoAnswer

(* _closeDatabase rolls "any pending transaction" back (database_mixin.    *)
(* dart:989): the connection is not closed inside of one, except inside of *)
(* one whose COMMIT has failed, which Dart no longer counts as pending.    *)
RollbackBeforeClose ==
  [][isOpen /\ ~isOpen' => ~openTx \/ CommitFailed]_vars

(* The isolate is in a transaction nobody holds or is about to be given: a *)
(* COMMIT has failed, and Dart has given the transaction up.               *)
TransactionAbandoned ==
  /\ currentTransactionId # NoTransaction
  /\ \A c \in Callers : currentTransactionId \notin {transaction[c].id, answer[c].id}

(* Who has the lock of d, or a call on its transaction, is parked behind   *)
(* such a transaction, so that the lock is not released.                   *)
LockStranded(d) ==
  /\ TransactionAbandoned
  /\ \E i \in DOMAIN noTransactionHandlerQueue :
       LET m == noTransactionHandlerQueue[i] IN
       /\ DatabaseOf[m.from] = d /\ rawLock[d] # <<>>
       /\ m.from = Head(rawLock[d]) \/ m.from \in InFlightOn(Head(rawLock[d]))

(* The connection is closed in the end, whatever holds the lock when close *)
(* is called and whatever waits for it, except behind the one holder that  *)
(* never releases it.                                                      *)
CloseCompletesUnlessStranded ==
  \A d \in Databases : isClosed[d] ~> (~isOpen \/ LockStranded(d))

(* A call or a transaction that does not complete waits for a lock that is *)
(* stranded behind a failed COMMIT, or is itself parked there.             *)
ActionsCompleteUnlessStranded ==
  \A c \in Callers :
    at[c] # "idle" ~> (at[c] = "idle" \/ LockStranded(DatabaseOf[c]))
=============================================================================
