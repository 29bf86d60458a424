------------------------- MODULE DarwinDatabaseProofs -------------------------
(* Theorems about DarwinDatabase, for any number of isolates, calls,       *)
(* cursors and hot restarts.                                               *)
EXTENDS DarwinDatabase, SequenceTheorems, TLAPS

(* What may be parked. *)
Parkable == {k \in Operation : k.kind \in Wrapped}

(* Parking a call keeps the queue one of calls. *)
LEMMA ParkTyped ==
  ASSUME NEW S, NEW s \in Seq(S), NEW e \in S
  PROVE  Append(s, e) \in Seq(S) /\ Append(s, e) # <<>>
BY AppendProperties

(* So does taking the call at the head. *)
LEMMA UnparkTyped ==
  ASSUME NEW S, NEW s \in Seq(S), s # <<>>
  PROVE  Head(s) \in S /\ Tail(s) \in Seq(S)
BY HeadTailProperties

(* The part of TypeOK that a handler can change. *)
RunTypes ==
  /\ currentTransactionId \in Nat
  /\ lastTransactionId \in Nat
  /\ inTransaction \in BOOLEAN
  /\ cursorMap \subseteq Nat
  /\ lastCursorId \in Nat
  /\ openTx \in BOOLEAN
  /\ writes \subseteq Int
  /\ phase \in [Clients -> {"closed", "recovered", "open"}]
  /\ held \in [Clients -> Nat]
  /\ cursor \in [Clients -> Nat]
  /\ waiting \in [Clients -> BOOLEAN]
  /\ epoch \in [Clients -> Nat]
  /\ begins \in Nat
  /\ queries \in Nat

(* The isolates' part of it. *)
ClientTypes ==
  /\ phase \in [Clients -> {"closed", "recovered", "open"}]
  /\ held \in [Clients -> Nat]
  /\ cursor \in [Clients -> Nat]
  /\ waiting \in [Clients -> BOOLEAN]
  /\ epoch \in [Clients -> Nat]
  /\ begins \in Nat
  /\ queries \in Nat

(* Answering a call keeps the types of the isolates' variables.            *)
LEMMA ReplyTyped ==
  ASSUME NEW k \in Operation, NEW t \in Nat, NEW i \in Nat,
         ClientTypes, Reply(k, t, i)
  PROVE  ClientTypes'
<1>1. k.client \in Clients
  BY DEF Operation
<1>. QED
  BY <1>1 DEF ClientTypes, Reply

(* A handler keeps the types. *)
LEMMA RunTyped ==
  ASSUME NEW k \in Operation, RunTypes,
         Run(k) \/ DoBatch(k) \/ DoCursorNext(k) \/ DoCursorCancel(k)
  PROVE  RunTypes'
<1>0. /\ k.tid \in Int /\ k.client \in Clients /\ k.cursor \in Nat
      /\ None \in Nat /\ BatchWriter \in Int
      /\ held[k.client] \in Nat /\ cursor[k.client] \in Nat
      /\ lastTransactionId + 1 \in Nat /\ lastCursorId + 1 \in Nat
  BY DEF Operation, None, BatchWriter, RunTypes, ForceId
<1>1. ClientTypes
  BY DEF RunTypes, ClientTypes
<1>2. CASE DoBegin(k)
  <2>1. ClientTypes'
    BY <1>0, <1>1, <1>2, ReplyTyped DEF DoBegin
  <2>2. /\ currentTransactionId' \in Nat /\ lastTransactionId' \in Nat
        /\ inTransaction' \in BOOLEAN /\ openTx' \in BOOLEAN
        /\ UNCHANGED <<cursorMap, lastCursorId, writes>>
    BY <1>0, <1>2 DEF DoBegin, RunTypes, cursorVars, sqliteVars
  <2>. QED
    BY <2>1, <2>2 DEF RunTypes, ClientTypes
<1>3. CASE DoStatement(k)
  <2>1. ClientTypes'
    BY <1>0, <1>1, <1>3, ReplyTyped DEF DoStatement
  <2>. QED
    BY <1>0, <1>3, <2>1 DEF DoStatement, Write, RunTypes, ClientTypes,
       nativeVars, cursorVars, sqliteVars
<1>4. CASE DoQuery(k)
  <2>1. ClientTypes'
    BY <1>0, <1>1, <1>4, ReplyTyped DEF DoQuery
  <2>2. cursorMap' \subseteq Nat /\ lastCursorId' \in Nat
    BY <1>0, <1>4 DEF DoQuery, RunTypes, cursorVars
  <2>. QED
    BY <1>4, <2>1, <2>2 DEF DoQuery, RunTypes, ClientTypes, nativeVars, sqliteVars
<1>5. CASE DoCommit(k)
  <2>1. ClientTypes'
    BY <1>0, <1>1, <1>5, ReplyTyped DEF DoCommit
  <2>. QED
    BY <1>0, <1>5, <2>1 DEF DoCommit, LeaveTransaction, RunTypes, ClientTypes,
       cursorVars, sqliteVars
<1>6. CASE DoRollback(k)
  <2>1. ClientTypes'
    BY <1>0, <1>1, <1>6, ReplyTyped DEF DoRollback
  <2>. QED
    BY <1>0, <1>6, <2>1 DEF DoRollback, LeaveTransaction, RunTypes, ClientTypes,
       cursorVars, sqliteVars
<1>7. CASE DoBatch(k)
  <2>1. ClientTypes'
    BY <1>0, <1>1, <1>7, ReplyTyped DEF DoBatch
  <2>. QED
    BY <1>0, <1>7, <2>1 DEF DoBatch, Write, RunTypes, ClientTypes,
       nativeVars, cursorVars, sqliteVars
<1>8. CASE DoCursorNext(k)
  <2>1. ClientTypes'
    BY <1>0, <1>1, <1>8, ReplyTyped DEF DoCursorNext
  <2>. QED
    BY <1>8, <2>1 DEF DoCursorNext, RunTypes, ClientTypes, nativeVars, sqliteVars
<1>9. CASE DoCursorCancel(k)
  <2>1. ClientTypes'
    BY <1>0, <1>1, <1>9, ReplyTyped DEF DoCursorCancel
  <2>. QED
    BY <1>9, <2>1 DEF DoCursorCancel, RunTypes, ClientTypes, nativeVars, sqliteVars
<1>. QED
  BY <1>2, <1>3, <1>4, <1>5, <1>6, <1>7, <1>8, <1>9 DEF Run
-----------------------------------------------------------------------------
(* What an isolate does: at most it sends one call, in the name of the     *)
(* transaction it holds or of none; it changes neither the native side nor *)
(* SQLite.                                                                 *)
LEMMA ClientStep ==
  ASSUME TypeOK, NEW c \in Clients, Client(c)
  PROVE  /\ \/ inFlight' = inFlight /\ ((held' = held /\ epoch' = epoch) \/ HotRestart(c))
            \/ /\ \E e \in Operation :
                    /\ inFlight' = inFlight \cup {e}
                    /\ e.client = c /\ e.epoch = epoch[c]
                    /\ e.tid \in {None, ForceId, held[c]}
               /\ held' = held /\ epoch' = epoch
         /\ UNCHANGED <<draining, noTransactionOperationQueue, nativeVars,
                        cursorVars, sqliteVars>>
         /\ phase' \in [Clients -> {"closed", "recovered", "open"}]
         /\ held' \in [Clients -> Nat]
         /\ cursor' \in [Clients -> Nat]
         /\ waiting' \in [Clients -> BOOLEAN]
         /\ epoch' \in [Clients -> Nat]
         /\ begins' \in Nat
         /\ queries' \in Nat
<1>0. None \in Nat /\ held[c] \in Nat /\ cursor[c] \in Nat /\ epoch[c] \in Nat
  BY DEF None, TypeOK
<1>. DEFINE Sent ==
       /\ \E e \in Operation :
            /\ inFlight' = inFlight \cup {e}
            /\ e.client = c /\ e.epoch = epoch[c]
            /\ e.tid \in {None, ForceId, held[c]}
       /\ UNCHANGED <<draining, noTransactionOperationQueue, nativeVars,
                      cursorVars, sqliteVars, phase, held, epoch>>
       /\ waiting' \in [Clients -> BOOLEAN] /\ begins' \in Nat /\ queries' \in Nat
<1>1. ASSUME NEW kind \in Wrapped \cup Unwrapped,
             NEW tid \in {None, ForceId, held[c]}, NEW id \in Nat,
             kind = "begin" => tid = None, tid = ForceId => kind = "rollback",
             Invoke(c, kind, tid, id)
      PROVE  Sent
  <2>1. [kind |-> kind, client |-> c, epoch |-> epoch[c], tid |-> tid,
         cursor |-> id] \in Operation
    BY <1>0, <1>1 DEF Operation
  <2>2. waiting' \in [Clients -> BOOLEAN] /\ begins' \in Nat /\ queries' \in Nat
    BY <1>1 DEF Invoke, TypeOK
  <2>. QED
    BY <1>1, <2>1, <2>2 DEF Invoke
<1>2. held[c] # ForceId
  BY <1>0 DEF ForceId
<1>3. CASE Reopen(c)
  BY <1>3 DEF Reopen, TypeOK
<1>4. CASE HotRestart(c)
  BY <1>0, <1>4 DEF HotRestart, TypeOK
<1>5. CASE Sent /\ cursor' \in [Clients -> Nat]
  BY <1>5 DEF TypeOK
<1>6. CASE RollbackRecovered(c)
  <2>1. Sent
    BY <1>0, <1>1, <1>6 DEF RollbackRecovered, Wrapped
  <2>. QED
    BY <1>5, <1>6, <2>1 DEF RollbackRecovered, TypeOK
<1>7. CASE BeginTransaction(c)
  <2>1. Sent
    BY <1>0, <1>1, <1>7 DEF BeginTransaction, Wrapped, None, ForceId
  <2>. QED
    BY <1>5, <1>7, <2>1 DEF BeginTransaction, TypeOK
<1>8. CASE CallStatement(c)
  <2>1. Sent
    BY <1>0, <1>1, <1>2, <1>8 DEF CallStatement, Wrapped
  <2>. QED
    BY <1>5, <1>8, <2>1 DEF CallStatement, TypeOK
<1>9. CASE CallBatch(c)
  <2>1. Sent
    BY <1>0, <1>1, <1>2, <1>9 DEF CallBatch, Unwrapped
  <2>. QED
    BY <1>5, <1>9, <2>1 DEF CallBatch, TypeOK
<1>10. CASE QueryCursor(c)
  <2>1. Sent
    BY <1>0, <1>1, <1>2, <1>10 DEF QueryCursor, Wrapped
  <2>. QED
    BY <1>5, <1>10, <2>1 DEF QueryCursor, TypeOK
<1>11. CASE MoveNext(c)
  <2>1. Sent
    BY <1>0, <1>1, <1>2, <1>11 DEF MoveNext, Unwrapped
  <2>. QED
    BY <1>5, <1>11, <2>1 DEF MoveNext, TypeOK
<1>12. CASE CloseCursor(c)
  <2>1. Sent
    BY <1>0, <1>1, <1>2, <1>12 DEF CloseCursor, Unwrapped
  <2>2. cursor' \in [Clients -> Nat]
    BY <1>0, <1>12 DEF CloseCursor, TypeOK
  <2>. QED
    BY <1>5, <2>1, <2>2
<1>13. CASE EndTransaction(c)
  <2>1. PICK kind \in {"commit", "rollback"} : Invoke(c, kind, held[c], None)
    BY <1>13 DEF EndTransaction
  <2>2. Sent
    BY <1>0, <1>1, <1>2, <2>1 DEF Wrapped
  <2>. QED
    BY <1>5, <1>13, <2>2 DEF EndTransaction, TypeOK
<1>. QED
  BY <1>3, <1>4, <1>6, <1>7, <1>8, <1>9, <1>10, <1>11, <1>12, <1>13 DEF Client

(* Every step keeps the types. *)
LEMMA NextTyped == TypeOK /\ [Next]_vars => TypeOK'
<1>. SUFFICES ASSUME TypeOK, [Next]_vars PROVE TypeOK'
  OBVIOUS
<1>0. RunTypes /\ noTransactionOperationQueue \in Seq(Parkable)
  BY DEF RunTypes, Parkable, TypeOK
<1>1. ASSUME NEW k \in inFlight, Handle(k) PROVE TypeOK'
  <2>0. k \in Operation
    BY DEF TypeOK
  <2>1. CASE RunOutsideTransaction(k)
    <3>1. RunTypes'
      BY <1>0, <2>0, <2>1, RunTyped DEF RunOutsideTransaction
    <3>. QED
      BY <2>1, <3>1 DEF RunOutsideTransaction, NextBlock, RunTypes, TypeOK
  <2>2. CASE RunInTransaction(k)
    <3>1. RunTypes'
      BY <1>0, <2>0, <2>2, RunTyped DEF RunInTransaction
    <3>. QED
      BY <2>2, <3>1 DEF RunInTransaction, NextBlock, RunTypes, TypeOK
  <2>3. CASE QueueForLater(k)
    <3>1. k \in Parkable
      BY <2>0, <2>3 DEF QueueForLater, Parkable
    <3>2. noTransactionOperationQueue' \in Seq(Parkable)
      BY <1>0, <2>3, <3>1, ParkTyped DEF QueueForLater
    <3>. QED
      BY <2>3, <3>2 DEF QueueForLater, NextBlock, TypeOK, Parkable, nativeVars,
         cursorVars, sqliteVars, clientVars
  <2>4. CASE RunUnwrapped(k)
    <3>1. RunTypes'
      BY <1>0, <2>0, <2>4, RunTyped DEF RunUnwrapped
    <3>. QED
      BY <2>4, <3>1 DEF RunUnwrapped, NextBlock, RunTypes, TypeOK
  <2>. QED
    BY <1>1, <2>1, <2>2, <2>3, <2>4 DEF Handle
<1>2. CASE RunQueuedOperation
  <2>1. /\ Head(noTransactionOperationQueue) \in Operation
        /\ noTransactionOperationQueue' \in Seq(Parkable)
    BY <1>0, <1>2, UnparkTyped DEF RunQueuedOperation, Parkable
  <2>2. RunTypes'
    BY <1>0, <1>2, <2>1, RunTyped DEF RunQueuedOperation
  <2>. QED
    BY <1>2, <2>1, <2>2 DEF RunQueuedOperation, RunTypes, TypeOK, Parkable
<1>3. CASE StopRunQueued
  BY <1>3 DEF StopRunQueued, TypeOK, nativeVars, cursorVars, sqliteVars, clientVars
<1>4. ASSUME NEW c \in Clients, Client(c) PROVE TypeOK'
  <2>1. inFlight' \subseteq Operation
    <3>1. inFlight' = inFlight \/ \E e \in Operation : inFlight' = inFlight \cup {e}
      BY <1>4, ClientStep
    <3>. QED
      BY <3>1 DEF TypeOK
  <2>. QED
    BY <1>4, <2>1, ClientStep DEF TypeOK, nativeVars, cursorVars, sqliteVars
<1>5. CASE UNCHANGED vars
  BY <1>5 DEF vars, TypeOK, nativeVars, cursorVars, sqliteVars, clientVars
<1>. QED
  BY <1>1, <1>2, <1>3, <1>4, <1>5 DEF Next, Queue

(* The variables keep their types in every behaviour of the native         *)
(* database, whatever the isolates call and SQLite answers.                *)
THEOREM TypeCorrect == Spec => []TypeOK
<1>1. Init => TypeOK
  <2>. SUFFICES ASSUME Init PROVE TypeOK
    OBVIOUS
  <2>1. noTransactionOperationQueue \in Seq({k \in Operation : k.kind \in Wrapped})
    BY EmptySeq DEF Init
  <2>. QED
    BY <2>1 DEF Init, TypeOK, None
<1>. QED
  BY <1>1, NextTyped, PTL DEF Spec
-----------------------------------------------------------------------------
(* A parked call that the wrapper has to run is never forgotten, whatever  *)
(* calls, ends of transactions and restarts come in whatever order.        *)
THEOREM ParkedCallsNotForgotten == Spec => []NoLostWakeUp
<1>1. Init => NoLostWakeUp
  BY DEF Init, NoLostWakeUp
<1>2. TypeOK /\ NoLostWakeUp /\ [Next]_vars => NoLostWakeUp'
  <2>. SUFFICES ASSUME TypeOK, NoLostWakeUp, [Next]_vars PROVE NoLostWakeUp'
    OBVIOUS
  <2>1. ASSUME NEW k \in inFlight, Handle(k) PROVE NoLostWakeUp'
    <3>1. CASE RunOutsideTransaction(k)
      BY <3>1 DEF RunOutsideTransaction, NextBlock, NoLostWakeUp
    <3>2. CASE RunInTransaction(k)
      BY <3>2 DEF RunInTransaction, NoLostWakeUp
    <3>3. CASE QueueForLater(k)
      BY <3>3 DEF QueueForLater, NoLostWakeUp, nativeVars
    <3>4. CASE RunUnwrapped(k)
      BY <3>4 DEF RunUnwrapped, DoBatch, DoCursorNext, DoCursorCancel,
         NoLostWakeUp, nativeVars
    <3>. QED
      BY <2>1, <3>1, <3>2, <3>3, <3>4 DEF Handle
  <2>2. CASE RunQueuedOperation
    BY <2>2 DEF RunQueuedOperation, NoLostWakeUp
  <2>3. CASE StopRunQueued
    BY <2>3 DEF StopRunQueued, NoLostWakeUp, nativeVars
  <2>4. ASSUME NEW c \in Clients, Client(c) PROVE NoLostWakeUp'
    BY <2>4, ClientStep DEF NoLostWakeUp, nativeVars
  <2>5. CASE UNCHANGED vars
    BY <2>5 DEF vars, NoLostWakeUp, nativeVars
  <2>. QED
    BY <2>1, <2>2, <2>3, <2>4, <2>5 DEF Next, Queue
<1>. QED
  BY <1>1, <1>2, TypeCorrect, PTL DEF Spec
-----------------------------------------------------------------------------
(* What makes OneWriterPerTransaction inductive, and half of               *)
(* RecoveredStateIsRight: SQLite is in a transaction only while the native *)
(* side has a current one, and nothing is uncommitted outside of one.      *)
TransactionInvariant ==
  /\ openTx => currentTransactionId # None
  /\ ~openTx => writes = {}
  /\ OneWriterPerTransaction
  /\ inTransaction => openTx

(* A call that runs does so outside of any transaction, or in the current  *)
(* one, or it is the forced ROLLBACK; and then it is no BEGIN.             *)
Entitled(k) == currentTransactionId = None \/ Admitted(k)

(* A BEGIN is never let into a transaction, and a statement that is let    *)
(* into one has its id.                                                    *)
LEMMA EntitledIds ==
  ASSUME NEW k \in Operation, TypeOK, Entitled(k), currentTransactionId # None
  PROVE  /\ k.kind # "begin"
         /\ k.kind # "rollback" => k.tid = currentTransactionId
BY DEF Entitled, Admitted, Operation, TypeOK, None, ForceId

(* A handler that runs keeps the invariant. *)
LEMMA RunKeepsTransaction ==
  ASSUME NEW k \in Operation, TypeOK, TransactionInvariant, Run(k), Entitled(k)
  PROVE  TransactionInvariant'
<1>0. /\ currentTransactionId \in Nat /\ lastTransactionId \in Nat
      /\ openTx \in BOOLEAN /\ inTransaction \in BOOLEAN
      /\ None = 0 /\ BatchWriter = -2
  BY DEF TypeOK, None, BatchWriter
<1>1. CASE DoBegin(k)
  <2>1. currentTransactionId = None /\ ~openTx /\ writes = {}
    BY <1>1, EntitledIds DEF DoBegin, TransactionInvariant
  <2>2. lastTransactionId + 1 # None
    BY <1>0
  <2>. QED
    BY <1>0, <1>1, <2>1, <2>2 DEF DoBegin, TransactionInvariant,
       OneWriterPerTransaction, sqliteVars
<1>2. CASE DoStatement(k)
  <2>1. openTx => k.tid = currentTransactionId
    BY <1>2, EntitledIds DEF DoStatement, TransactionInvariant
  <2>. QED
    BY <1>0, <1>2, <2>1 DEF DoStatement, Write, TransactionInvariant,
       OneWriterPerTransaction, nativeVars, sqliteVars
<1>3. CASE DoQuery(k)
  BY <1>3 DEF DoQuery, TransactionInvariant, OneWriterPerTransaction,
     nativeVars, sqliteVars
<1>4. CASE DoCommit(k)
  BY <1>0, <1>4 DEF DoCommit, LeaveTransaction, TransactionInvariant,
     OneWriterPerTransaction, sqliteVars
<1>5. CASE DoRollback(k)
  BY <1>0, <1>5 DEF DoRollback, LeaveTransaction, TransactionInvariant,
     OneWriterPerTransaction, sqliteVars
<1>. QED
  BY <1>1, <1>2, <1>3, <1>4, <1>5 DEF Run

(* Every step keeps it. *)
LEMMA TransactionStep ==
  ASSUME TypeOK, TransactionInvariant, [Next]_vars
  PROVE  TransactionInvariant'
<1>1. ASSUME NEW k \in inFlight, Handle(k) PROVE TransactionInvariant'
  <2>0. k \in Operation
    BY DEF TypeOK
  <2>1. CASE RunOutsideTransaction(k)
    BY <2>0, <2>1, RunKeepsTransaction DEF RunOutsideTransaction, Entitled
  <2>2. CASE RunInTransaction(k)
    BY <2>0, <2>2, RunKeepsTransaction DEF RunInTransaction, Entitled
  <2>3. CASE QueueForLater(k)
    BY <2>3 DEF QueueForLater, TransactionInvariant, OneWriterPerTransaction,
       nativeVars, sqliteVars
  <2>4. CASE RunUnwrapped(k)
    <3>1. CASE DoBatch(k)
      BY <3>1 DEF DoBatch, Write, TransactionInvariant, OneWriterPerTransaction,
         nativeVars, sqliteVars
    <3>2. CASE DoCursorNext(k) \/ DoCursorCancel(k)
      BY <3>2 DEF DoCursorNext, DoCursorCancel, TransactionInvariant,
         OneWriterPerTransaction, nativeVars, sqliteVars
    <3>. QED
      BY <2>4, <3>1, <3>2 DEF RunUnwrapped
  <2>. QED
    BY <1>1, <2>1, <2>2, <2>3, <2>4 DEF Handle
<1>2. CASE RunQueuedOperation
  <2>1. Head(noTransactionOperationQueue) \in Operation
    BY <1>2, UnparkTyped DEF RunQueuedOperation, TypeOK
  <2>. QED
    BY <1>2, <2>1, RunKeepsTransaction DEF RunQueuedOperation, Entitled
<1>3. CASE StopRunQueued
  BY <1>3 DEF StopRunQueued, TransactionInvariant, OneWriterPerTransaction,
     nativeVars, sqliteVars
<1>4. ASSUME NEW c \in Clients, Client(c) PROVE TransactionInvariant'
  <2>1. UNCHANGED <<nativeVars, sqliteVars>>
    BY <1>4, ClientStep
  <2>. QED
    BY <2>1 DEF TransactionInvariant, OneWriterPerTransaction, nativeVars, sqliteVars
<1>5. CASE UNCHANGED vars
  BY <1>5 DEF vars, TransactionInvariant, OneWriterPerTransaction,
     nativeVars, sqliteVars
<1>. QED
  BY <1>1, <1>2, <1>3, <1>4, <1>5 DEF Next, Queue

(* Every behaviour keeps it. *)
LEMMA TransactionAlways == Spec => []TransactionInvariant
<1>1. Init => TransactionInvariant
  BY DEF Init, TransactionInvariant, OneWriterPerTransaction
<1>. QED
  BY <1>1, TransactionStep, TypeCorrect, PTL DEF Spec

(* Uncommitted writes that passed the wrapper are all of the transaction   *)
(* the native side knows, for any order of the blocks.                     *)
THEOREM OneWriter == Spec => []OneWriterPerTransaction
<1>1. TransactionInvariant => OneWriterPerTransaction
  BY DEF TransactionInvariant
<1>. QED
  BY <1>1, TransactionAlways, PTL
-----------------------------------------------------------------------------
(* Who holds a transaction: ids are handed out once, no two isolates hold  *)
(* one, and a call in flight that has the id of a held transaction comes   *)
(* from the isolate that holds it, not from before its restart.            *)
HoldersInvariant ==
  /\ currentTransactionId <= lastTransactionId
  /\ \A c \in Clients : held[c] <= lastTransactionId
  /\ \A c, d \in Clients : held[c] = held[d] /\ held[c] # None => c = d
  /\ \A k \in inFlight :
       /\ k.tid <= lastTransactionId
       /\ \A c \in Clients : held[c] = k.tid /\ k.tid # None =>
            c = k.client /\ epoch[c] = k.epoch

(* What a handler does to the transactions that are held.                  *)
HeldAfter(k) ==
  /\ epoch' = epoch
  /\ \/ /\ lastTransactionId' = lastTransactionId
        /\ currentTransactionId' \in {currentTransactionId, None}
        /\ held' = held \/ held' = [held EXCEPT ![k.client] = None]
     \/ /\ lastTransactionId' = lastTransactionId + 1
        /\ currentTransactionId' \in {None, lastTransactionId + 1}
        /\ \/ held' = held
           \/ held' = [held EXCEPT ![k.client] = None]
           \/ held' = [held EXCEPT ![k.client] = lastTransactionId + 1]

(* An answer that leaves the isolate its transaction changes no held id.   *)
LEMMA ReplyHeld ==
  ASSUME NEW k \in Operation, TypeOK, NEW t, NEW i, Reply(k, t, i)
  PROVE  /\ epoch' = epoch
         /\ \/ held' = held
            \/ epoch[k.client] = k.epoch /\ held' = [held EXCEPT ![k.client] = t]
         /\ epoch[k.client] = k.epoch => held'[k.client] = t
         /\ t = held[k.client] => held' = held
<1>1. k.client \in Clients /\ held \in [Clients -> Nat]
  BY DEF Operation, TypeOK
<1>. QED
  BY <1>1 DEF Reply

(* Every handler is one of these. *)
LEMMA HandlerHeld ==
  ASSUME NEW k \in Operation, TypeOK,
         Run(k) \/ DoBatch(k) \/ DoCursorNext(k) \/ DoCursorCancel(k)
  PROVE  HeldAfter(k)
<1>1. CASE DoBegin(k)
  <2>1. PICK t \in {None, lastTransactionId + 1} : Reply(k, t, None)
    BY <1>1 DEF DoBegin
  <2>2. /\ epoch' = epoch
        /\ held' = held \/ held' = [held EXCEPT ![k.client] = t]
    BY <2>1, ReplyHeld
  <2>3. /\ lastTransactionId' = lastTransactionId + 1
        /\ currentTransactionId' \in {None, lastTransactionId + 1}
    BY <1>1 DEF DoBegin
  <2>. QED
    BY <2>2, <2>3 DEF HeldAfter
<1>2. CASE DoStatement(k)
  BY <1>2, ReplyHeld DEF DoStatement, HeldAfter, nativeVars
<1>3. CASE DoQuery(k)
  BY <1>3, ReplyHeld DEF DoQuery, HeldAfter, nativeVars
<1>4. CASE DoCommit(k)
  <2>1. currentTransactionId' \in {currentTransactionId, None}
    BY <1>4 DEF DoCommit, LeaveTransaction
  <2>. QED
    BY <1>4, <2>1, ReplyHeld DEF DoCommit, HeldAfter
<1>5. CASE DoRollback(k)
  <2>1. currentTransactionId' \in {currentTransactionId, None}
    BY <1>5 DEF DoRollback, LeaveTransaction
  <2>. QED
    BY <1>5, <2>1, ReplyHeld DEF DoRollback, HeldAfter
<1>6. CASE DoBatch(k)
  BY <1>6, ReplyHeld DEF DoBatch, HeldAfter, nativeVars
<1>7. CASE DoCursorNext(k)
  BY <1>7, ReplyHeld DEF DoCursorNext, HeldAfter, nativeVars
<1>8. CASE DoCursorCancel(k)
  BY <1>8, ReplyHeld DEF DoCursorCancel, HeldAfter, nativeVars
<1>. QED
  BY <1>1, <1>2, <1>3, <1>4, <1>5, <1>6, <1>7, <1>8 DEF Run

(* A handler keeps the invariant about holders. *)
LEMMA HeldAfterKeepsHolders ==
  ASSUME NEW k \in Operation, TypeOK, HoldersInvariant, HeldAfter(k),
         inFlight' \subseteq inFlight
  PROVE  HoldersInvariant'
<1>0. /\ k.client \in Clients /\ held \in [Clients -> Nat] /\ None = 0
      /\ lastTransactionId \in Nat /\ currentTransactionId \in Nat
      /\ \A o \in inFlight : o.tid \in Int
  BY DEF Operation, TypeOK, None, ForceId
<1>1. lastTransactionId' \in Nat /\ lastTransactionId <= lastTransactionId'
  BY <1>0 DEF HeldAfter
<1>2. PICK t \in {None, lastTransactionId + 1} :
        /\ held' = held \/ held' = [held EXCEPT ![k.client] = t]
        /\ t # None => lastTransactionId' = lastTransactionId + 1
  BY DEF HeldAfter
<1>3. \A c \in Clients : held'[c] = held[c] \/ (c = k.client /\ held'[c] = t)
  BY <1>0, <1>2
<1>4. currentTransactionId' <= lastTransactionId'
  BY <1>0, <1>1 DEF HeldAfter, HoldersInvariant
<1>5. \A c \in Clients : held'[c] <= lastTransactionId'
  BY <1>0, <1>1, <1>2, <1>3 DEF HoldersInvariant
<1>6. \A c, d \in Clients : held'[c] = held'[d] /\ held'[c] # None => c = d
  BY <1>0, <1>2, <1>3 DEF HoldersInvariant
<1>7. \A o \in inFlight : o.tid <= lastTransactionId'
  BY <1>0, <1>1 DEF HoldersInvariant
<1>8. ASSUME NEW o \in inFlight, NEW c \in Clients, held'[c] = o.tid, o.tid # None
      PROVE  c = o.client /\ epoch'[c] = o.epoch
  <2>1. o.tid <= lastTransactionId
    BY DEF HoldersInvariant
  <2>2. held'[c] = held[c]
    BY <1>0, <1>2, <1>3, <1>8, <2>1
  <2>. QED
    BY <1>8, <2>2 DEF HeldAfter, HoldersInvariant
<1>. QED
  BY <1>4, <1>5, <1>6, <1>7, <1>8 DEF HoldersInvariant

(* Every step keeps it. *)
LEMMA HoldersStep ==
  ASSUME TypeOK, HoldersInvariant, [Next]_vars
  PROVE  HoldersInvariant'
<1>1. ASSUME NEW k \in inFlight, Handle(k) PROVE HoldersInvariant'
  <2>0. k \in Operation /\ inFlight' \subseteq inFlight
    BY <1>1 DEF TypeOK, Handle, RunOutsideTransaction, RunInTransaction,
       QueueForLater, RunUnwrapped, NextBlock
  <2>1. CASE QueueForLater(k)
    BY <2>0, <2>1 DEF QueueForLater, HoldersInvariant, nativeVars, clientVars
  <2>2. CASE RunOutsideTransaction(k) \/ RunInTransaction(k) \/ RunUnwrapped(k)
    <3>1. Run(k) \/ DoBatch(k) \/ DoCursorNext(k) \/ DoCursorCancel(k)
      BY <2>2 DEF RunOutsideTransaction, RunInTransaction, RunUnwrapped
    <3>. QED
      BY <2>0, <3>1, HandlerHeld, HeldAfterKeepsHolders
  <2>. QED
    BY <1>1, <2>1, <2>2 DEF Handle
<1>2. CASE RunQueuedOperation
  <2>1. Head(noTransactionOperationQueue) \in Operation
    BY <1>2, UnparkTyped DEF RunQueuedOperation, TypeOK
  <2>2. Run(Head(noTransactionOperationQueue)) /\ inFlight' = inFlight
    BY <1>2 DEF RunQueuedOperation
  <2>. QED
    BY <2>1, <2>2, HandlerHeld, HeldAfterKeepsHolders
<1>3. CASE StopRunQueued
  BY <1>3 DEF StopRunQueued, HoldersInvariant, nativeVars, clientVars
<1>4. ASSUME NEW c \in Clients, Client(c) PROVE HoldersInvariant'
  <2>0. /\ lastTransactionId' = lastTransactionId
        /\ currentTransactionId' = currentTransactionId
    BY <1>4, ClientStep DEF nativeVars
  <2>1. CASE HotRestart(c)
    <3>1. /\ inFlight' = inFlight
          /\ \A d \in Clients : held'[d] = None \/ d # c
          /\ \A d \in Clients : d # c => held'[d] = held[d] /\ epoch'[d] = epoch[d]
          /\ held'[c] = None
      BY <2>1 DEF HotRestart, TypeOK
    <3>2. None <= lastTransactionId
      BY DEF None, TypeOK
    <3>3. \A d \in Clients : held'[d] <= lastTransactionId
      BY <3>1, <3>2 DEF HoldersInvariant
    <3>. QED
      BY <2>0, <3>1, <3>3 DEF HoldersInvariant
  <2>2. CASE inFlight' = inFlight /\ held' = held /\ epoch' = epoch
    BY <2>0, <2>2 DEF HoldersInvariant
  <2>3. ASSUME NEW e \in Operation, inFlight' = inFlight \cup {e},
               e.client = c, e.epoch = epoch[c], e.tid \in {None, ForceId, held[c]},
               held' = held, epoch' = epoch
        PROVE  HoldersInvariant'
    <3>1. e.tid <= lastTransactionId
      BY <2>3 DEF None, ForceId, TypeOK, HoldersInvariant
    <3>2. ASSUME NEW d \in Clients, held[d] = e.tid, e.tid # None
          PROVE  d = c
      <4>1. held[d] # ForceId
        BY DEF TypeOK, ForceId
      <4>. QED
        BY <2>3, <3>2, <4>1 DEF HoldersInvariant
    <3>. QED
      BY <2>0, <2>3, <3>1, <3>2 DEF HoldersInvariant
  <2>. QED
    BY <1>4, <2>1, <2>2, <2>3, ClientStep
<1>5. CASE UNCHANGED vars
  BY <1>5 DEF vars, HoldersInvariant, nativeVars, clientVars
<1>. QED
  BY <1>1, <1>2, <1>3, <1>4, <1>5 DEF Next, Queue
-----------------------------------------------------------------------------
(* A handler keeps RecoveredStateIsRight.  The case to look at is a COMMIT *)
(* that fails: its isolate, and no other, has held the transaction.        *)
LEMMA RunKeepsRecovered ==
  ASSUME NEW k \in Operation, TypeOK, TransactionInvariant, HoldersInvariant,
         RecoveredStateIsRight, Run(k), Entitled(k),
         k \in inFlight \/ currentTransactionId = None
  PROVE  RecoveredStateIsRight'
<1>0. /\ k.client \in Clients /\ held \in [Clients -> Nat] /\ None = 0
      /\ lastTransactionId \in Nat /\ openTx \in BOOLEAN /\ inTransaction \in BOOLEAN
  BY DEF Operation, TypeOK, None
<1>1. CASE DoBegin(k)
  <2>1. ~openTx
    BY <1>1, EntitledIds DEF DoBegin, TransactionInvariant
  <2>2. lastTransactionId + 1 # None
    BY <1>0
  <2>. QED
    BY <1>0, <1>1, <2>1, <2>2 DEF DoBegin, RecoveredStateIsRight, sqliteVars
<1>2. CASE DoStatement(k)
  <2>1. held' = held
    BY <1>2, ReplyHeld DEF DoStatement
  <2>2. openTx' = openTx
    BY <1>2 DEF DoStatement, Write, sqliteVars
  <2>. QED
    BY <1>2, <2>1, <2>2 DEF DoStatement, RecoveredStateIsRight, nativeVars
<1>3. CASE DoQuery(k)
  <2>1. held' = held
    BY <1>3, ReplyHeld DEF DoQuery
  <2>. QED
    BY <1>3, <2>1 DEF DoQuery, RecoveredStateIsRight, nativeVars, sqliteVars
<1>4. CASE DoCommit(k)
  <2>1. CASE LeaveTransaction(k)
    BY <1>4, <2>1 DEF DoCommit, LeaveTransaction, RecoveredStateIsRight
  <2>2. CASE UNCHANGED <<currentTransactionId, sqliteVars>>
    <3>1. ASSUME openTx, NEW c \in Clients PROVE held'[c] # currentTransactionId
      <4>1. currentTransactionId # None /\ k \in inFlight
        BY <3>1 DEF TransactionInvariant
      <4>2. k.tid = currentTransactionId
        BY <1>4, <4>1, EntitledIds DEF DoCommit
      <4>3. /\ held' = held \/ held' = [held EXCEPT ![k.client] = None]
            /\ epoch[k.client] = k.epoch => held'[k.client] = None
        BY <1>4, ReplyHeld DEF DoCommit
      <4>4. CASE held[c] = k.tid
        <5>1. c = k.client /\ epoch[c] = k.epoch
          BY <4>1, <4>2, <4>4 DEF HoldersInvariant
        <5>. QED
          BY <4>1, <4>3, <5>1
      <4>5. CASE held[c] # k.tid
        BY <1>0, <4>1, <4>2, <4>3, <4>5
      <4>. QED
        BY <4>4, <4>5
    <3>. QED
      BY <1>4, <2>2, <3>1 DEF DoCommit, RecoveredStateIsRight, sqliteVars
  <2>. QED
    BY <1>4, <2>1, <2>2 DEF DoCommit
<1>5. CASE DoRollback(k)
  <2>1. ~openTx'
    BY <1>5 DEF DoRollback, LeaveTransaction, sqliteVars
  <2>. QED
    BY <1>5, <2>1 DEF DoRollback, RecoveredStateIsRight
<1>. QED
  BY <1>1, <1>2, <1>3, <1>4, <1>5 DEF Run

(* Every step keeps it. *)
LEMMA RecoveredStep ==
  ASSUME TypeOK, TransactionInvariant, HoldersInvariant, RecoveredStateIsRight,
         [Next]_vars
  PROVE  RecoveredStateIsRight'
<1>1. ASSUME NEW k \in inFlight, Handle(k) PROVE RecoveredStateIsRight'
  <2>0. k \in Operation
    BY DEF TypeOK
  <2>1. CASE RunOutsideTransaction(k)
    BY <2>0, <2>1, RunKeepsRecovered DEF RunOutsideTransaction, Entitled
  <2>2. CASE RunInTransaction(k)
    BY <2>0, <2>2, RunKeepsRecovered DEF RunInTransaction, Entitled
  <2>3. CASE QueueForLater(k)
    BY <2>3 DEF QueueForLater, RecoveredStateIsRight, nativeVars, sqliteVars,
       clientVars
  <2>4. CASE RunUnwrapped(k)
    <3>1. held' = held
      <4>1. CASE DoBatch(k)
        BY <2>0, <4>1, ReplyHeld DEF DoBatch
      <4>2. CASE DoCursorNext(k)
        BY <2>0, <4>2, ReplyHeld DEF DoCursorNext
      <4>3. CASE DoCursorCancel(k)
        BY <2>0, <4>3, ReplyHeld DEF DoCursorCancel
      <4>. QED
        BY <2>4, <4>1, <4>2, <4>3 DEF RunUnwrapped
    <3>2. UNCHANGED <<nativeVars, openTx>>
      BY <2>4 DEF RunUnwrapped, DoBatch, DoCursorNext, DoCursorCancel, Write,
         sqliteVars
    <3>. QED
      BY <3>1, <3>2 DEF RecoveredStateIsRight, nativeVars
  <2>. QED
    BY <1>1, <2>1, <2>2, <2>3, <2>4 DEF Handle
<1>2. CASE RunQueuedOperation
  <2>1. Head(noTransactionOperationQueue) \in Operation
    BY <1>2, UnparkTyped DEF RunQueuedOperation, TypeOK
  <2>. QED
    BY <1>2, <2>1, RunKeepsRecovered DEF RunQueuedOperation, Entitled
<1>3. CASE StopRunQueued
  BY <1>3 DEF StopRunQueued, RecoveredStateIsRight, nativeVars, sqliteVars,
     clientVars
<1>4. ASSUME NEW c \in Clients, Client(c) PROVE RecoveredStateIsRight'
  <2>1. UNCHANGED <<nativeVars, sqliteVars>> /\ (held' = held \/ HotRestart(c))
    BY <1>4, ClientStep
  <2>2. ASSUME NEW d \in Clients, openTx PROVE held'[d] = held[d] \/ held'[d] # currentTransactionId
    BY <2>1, <2>2 DEF HotRestart, TypeOK, TransactionInvariant
  <2>. QED
    BY <2>1, <2>2 DEF RecoveredStateIsRight, nativeVars, sqliteVars
<1>5. CASE UNCHANGED vars
  BY <1>5 DEF vars, RecoveredStateIsRight, nativeVars, sqliteVars, clientVars
<1>. QED
  BY <1>1, <1>2, <1>3, <1>4, <1>5 DEF Next, Queue

(* A restarted isolate is told "in transaction" only while SQLite is in    *)
(* the transaction that the native side knows, so that the ROLLBACK it     *)
(* sends ends that one; and it is told so whenever SQLite is in a          *)
(* transaction that an isolate still holds.                                *)
THEOREM RecoveredState == Spec => []RecoveredStateIsRight
<1>1. Init => HoldersInvariant /\ RecoveredStateIsRight
  BY DEF Init, HoldersInvariant, RecoveredStateIsRight, None
<1>. QED
  BY <1>1, HoldersStep, RecoveredStep, TransactionAlways, TypeCorrect, PTL
     DEF Spec
-----------------------------------------------------------------------------
(* The isolate that sent the call has not restarted since. *)
Awaits(k) == k.epoch = epoch[k.client]

(* What an unanswered call says of the cursors.  An isolate that awaits a  *)
(* new cursor or the end of one holds none; one that awaits a page still   *)
(* holds its cursor; any other call that names a cursor names one that is  *)
(* nobody's any more.                                                      *)
CallFits(k) ==
  /\ k.cursor <= lastCursorId
  /\ k.epoch <= epoch[k.client]
  /\ Awaits(k) =>
       /\ waiting[k.client]
       /\ k.kind \in {"begin", "query", "cursorCancel"} => cursor[k.client] = None
       /\ k.kind = "cursorNext" => cursor[k.client] = k.cursor
  /\ k.cursor # None /\ ~(Awaits(k) /\ k.kind = "cursorNext") =>
       \A c \in Clients : cursor[c] # k.cursor

(* No isolate awaits both calls. *)
Apart(j, k) == ~(Awaits(j) /\ Awaits(k) /\ j.client = k.client)

(* An isolate awaits one call at a time, in flight or parked. *)
OneCall ==
  /\ \A j, k \in inFlight : j = k \/ Apart(j, k)
  /\ \A i, j \in DOMAIN noTransactionOperationQueue :
       i = j \/ Apart(noTransactionOperationQueue[i], noTransactionOperationQueue[j])
  /\ \A k \in inFlight, i \in DOMAIN noTransactionOperationQueue :
       Apart(k, noTransactionOperationQueue[i])

(* What makes CursorsAccountedFor inductive. *)
CursorInvariant ==
  /\ \A k \in inFlight : CallFits(k)
  /\ \A i \in DOMAIN noTransactionOperationQueue :
       CallFits(noTransactionOperationQueue[i])
  /\ OneCall
  /\ \A c \in Clients : cursor[c] <= lastCursorId
  /\ cursorMap \subseteq 1 .. lastCursorId
  /\ CursorsAccountedFor

(* What a handler does to the cursors: it leaves them as they are, opens   *)
(* the next one, or closes the one the call names.                         *)
CursorAfter(k) ==
  /\ epoch' = epoch
  /\ \A c \in Clients : c # k.client \/ ~Awaits(k) =>
       cursor'[c] = cursor[c] /\ waiting'[c] = waiting[c]
  /\ \/ /\ k.kind # "cursorCancel"
        /\ lastCursorId' = lastCursorId /\ cursorMap' = cursorMap
        /\ cursor'[k.client] = cursor[k.client]
     \/ /\ k.kind # "cursorCancel"
        /\ lastCursorId' = lastCursorId + 1
        /\ cursorMap' = cursorMap \cup {lastCursorId + 1}
        /\ Awaits(k) => /\ cursor[k.client] = None
                        /\ cursor'[k.client] = lastCursorId + 1
     \/ /\ k.kind \in {"cursorNext", "cursorCancel"}
        /\ lastCursorId' = lastCursorId
        /\ cursorMap' = cursorMap \ {k.cursor}
        /\ Awaits(k) => cursor'[k.client] = None

(* An answer reaches only the isolate that awaits it. *)
LEMMA ReplyCursor ==
  ASSUME NEW k \in Operation, TypeOK, NEW t, NEW i, Reply(k, t, i)
  PROVE  /\ k.client \in Clients
         /\ epoch' = epoch
         /\ \A c \in Clients : c # k.client \/ ~Awaits(k) =>
              cursor'[c] = cursor[c] /\ waiting'[c] = waiting[c]
         /\ Awaits(k) => cursor'[k.client] = i
         /\ ~Awaits(k) => cursor'[k.client] = cursor[k.client]
<1>1. /\ k.client \in Clients /\ cursor \in [Clients -> Nat]
      /\ waiting \in [Clients -> BOOLEAN]
  BY DEF Operation, TypeOK
<1>. QED
  BY <1>1 DEF Reply, Awaits

(* Every handler is one of these. *)
LEMMA HandlerCursor ==
  ASSUME NEW k \in Operation, TypeOK, CallFits(k),
         Run(k) \/ DoBatch(k) \/ DoCursorNext(k) \/ DoCursorCancel(k)
  PROVE  CursorAfter(k)
<1>1. CASE DoBegin(k)
  <2>1. PICK t \in {None, lastTransactionId + 1} : Reply(k, t, None)
    BY <1>1 DEF DoBegin
  <2>2. Awaits(k) => cursor[k.client] = None
    BY <1>1 DEF DoBegin, CallFits
  <2>. QED
    BY <1>1, <2>1, <2>2, ReplyCursor DEF DoBegin, CursorAfter, cursorVars
<1>2. CASE DoStatement(k)
  BY <1>2, ReplyCursor DEF DoStatement, CursorAfter, cursorVars
<1>3. CASE DoQuery(k)
  <2>1. Awaits(k) => cursor[k.client] = None
    BY <1>3 DEF DoQuery, CallFits
  <2>2. k.kind # "cursorCancel"
    BY <1>3 DEF DoQuery
  <2>3. CASE /\ lastCursorId' = lastCursorId + 1
             /\ cursorMap' = cursorMap \cup {lastCursorId + 1}
             /\ Reply(k, held[k.client], lastCursorId + 1)
    BY <2>1, <2>2, <2>3, ReplyCursor DEF CursorAfter
  <2>4. CASE UNCHANGED cursorVars /\ Reply(k, held[k.client], None)
    BY <2>1, <2>2, <2>4, ReplyCursor DEF CursorAfter, cursorVars
  <2>. QED
    BY <1>3, <2>3, <2>4 DEF DoQuery
<1>4. CASE DoCommit(k)
  BY <1>4, ReplyCursor DEF DoCommit, CursorAfter, cursorVars
<1>5. CASE DoRollback(k)
  BY <1>5, ReplyCursor DEF DoRollback, CursorAfter, cursorVars
<1>6. CASE DoBatch(k)
  BY <1>6, ReplyCursor DEF DoBatch, CursorAfter, cursorVars
<1>7. CASE DoCursorNext(k)
  <2>1. Awaits(k) => cursor[k.client] = k.cursor
    BY <1>7 DEF DoCursorNext, CallFits
  <2>2. CASE UNCHANGED cursorMap /\ Reply(k, held[k.client], k.cursor)
    BY <1>7, <2>1, <2>2, ReplyCursor DEF DoCursorNext, CursorAfter
  <2>3. CASE /\ cursorMap' = cursorMap \ {k.cursor}
             /\ Reply(k, held[k.client], None)
    BY <1>7, <2>3, ReplyCursor DEF DoCursorNext, CursorAfter
  <2>. QED
    BY <1>7, <2>2, <2>3 DEF DoCursorNext
<1>8. CASE DoCursorCancel(k)
  BY <1>8, ReplyCursor DEF DoCursorCancel, CursorAfter
<1>. QED
  BY <1>1, <1>2, <1>3, <1>4, <1>5, <1>6, <1>7, <1>8 DEF Run

(* After a handler an isolate has its cursor still, or none, or the next.  *)
LEMMA CursorValues ==
  ASSUME NEW k \in Operation, TypeOK, CursorAfter(k), NEW c \in Clients
  PROVE  /\ cursor'[c] \in {cursor[c], None, lastCursorId + 1}
         /\ cursor'[c] = lastCursorId + 1 /\ cursor[c] # lastCursorId + 1 =>
              c = k.client /\ lastCursorId' = lastCursorId + 1
         /\ lastCursorId' \in {lastCursorId, lastCursorId + 1}
<1>1. k.client \in Clients /\ lastCursorId \in Nat /\ lastCursorId + 1 # None
  BY DEF Operation, TypeOK, None
<1>2. CASE c # k.client \/ ~Awaits(k)
  BY <1>1, <1>2 DEF CursorAfter
<1>3. CASE c = k.client /\ Awaits(k)
  BY <1>1, <1>3 DEF CursorAfter
<1>. QED
  BY <1>2, <1>3

(* A handler keeps what the other unanswered calls say. *)
LEMMA CallKept ==
  ASSUME NEW k \in Operation, NEW j \in Operation, TypeOK, CursorAfter(k),
         CallFits(j), Apart(j, k)
  PROVE  CallFits(j)'
<1>0. /\ j.client \in Clients /\ lastCursorId \in Nat /\ j.cursor \in Nat
      /\ k.client \in Clients
  BY DEF Operation, TypeOK
<1>1. epoch' = epoch
  BY DEF CursorAfter
<1>2. j.cursor <= lastCursorId'
  <2>1. lastCursorId' \in {lastCursorId, lastCursorId + 1}
    BY <1>0, CursorValues
  <2>. QED
    BY <1>0, <2>1 DEF CallFits
<1>3. ASSUME Awaits(j)
      PROVE  cursor'[j.client] = cursor[j.client] /\ waiting'[j.client] = waiting[j.client]
  BY <1>0, <1>3 DEF Apart, CursorAfter
<1>4. ASSUME NEW c \in Clients, j.cursor # None, cursor[c] # j.cursor
      PROVE  cursor'[c] # j.cursor
  <2>1. cursor'[c] \in {cursor[c], None, lastCursorId + 1}
    BY CursorValues
  <2>2. j.cursor # lastCursorId + 1
    BY <1>0 DEF CallFits
  <2>. QED
    BY <1>4, <2>1, <2>2
<1>. QED
  BY <1>1, <1>2, <1>3, <1>4 DEF CallFits, Awaits

(* And the cursors are accounted for afterwards. *)
LEMMA HandlerAccounts ==
  ASSUME NEW k \in Operation, TypeOK, CursorInvariant, CursorAfter(k), CallFits(k),
         \A j \in inFlight : j = k \/ j \in inFlight'
  PROVE  /\ \A c \in Clients : cursor'[c] <= lastCursorId'
         /\ cursorMap' \subseteq 1 .. lastCursorId'
         /\ CursorsAccountedFor'
<1>0. /\ k.client \in Clients /\ lastCursorId \in Nat /\ None = 0
      /\ cursor \in [Clients -> Nat] /\ epoch \in [Clients -> Nat]
      /\ k.cursor \in Nat /\ k.epoch \in Nat
  BY DEF Operation, TypeOK, None
<1>1. epoch' = epoch
  BY DEF CursorAfter
<1>2. lastCursorId' \in {lastCursorId, lastCursorId + 1}
  BY <1>0, CursorValues
<1>3. cursorMap' \subseteq 1 .. lastCursorId'
  <2>. SUFFICES ASSUME NEW id \in cursorMap' PROVE id \in 1 .. lastCursorId'
    OBVIOUS
  <2>1. id \in cursorMap \/ (id = lastCursorId + 1 /\ lastCursorId' = lastCursorId + 1)
    BY DEF CursorAfter
  <2>2. cursorMap \subseteq 1 .. lastCursorId
    BY DEF CursorInvariant
  <2>3. id \in Int /\ 1 <= id /\ id <= lastCursorId'
    <3>1. CASE id \in cursorMap
      <4>1. id \in 1 .. lastCursorId
        BY <2>2, <3>1
      <4>2. id \in Int /\ 1 <= id /\ id <= lastCursorId
        BY <1>0, <4>1
      <4>. QED
        BY <1>0, <1>2, <4>2
    <3>2. CASE id = lastCursorId + 1 /\ lastCursorId' = lastCursorId + 1
      BY <1>0, <3>2
    <3>. QED
      BY <2>1, <3>1, <3>2
  <2>4. lastCursorId' \in Int
    BY <1>0, <1>2
  <2>. QED
    BY <2>3, <2>4
<1>4. ASSUME NEW c \in Clients
      PROVE  cursor'[c] <= lastCursorId'
  <2>1. cursor[c] \in Nat /\ cursor[c] <= lastCursorId
    BY <1>0 DEF CursorInvariant
  <2>. QED
    BY <1>0, <1>2, <2>1, CursorValues
<1>5. ASSUME NEW c \in Clients, cursor'[c] # None
      PROVE  cursor'[c] \in cursorMap'
  <2>1. CASE c = k.client /\ Awaits(k)
    BY <1>5, <2>1 DEF CursorAfter, CursorInvariant, CursorsAccountedFor,
       CallFits
  <2>2. CASE c # k.client \/ ~Awaits(k)
    <3>1. cursor'[c] = cursor[c] /\ cursor[c] \in cursorMap
      BY <1>5, <2>2 DEF CursorAfter, CursorInvariant, CursorsAccountedFor
    <3>2. ASSUME cursor[c] = k.cursor
          PROVE  Awaits(k) /\ k.kind = "cursorNext" /\ cursor[k.client] = k.cursor
      BY <1>5, <3>1, <3>2 DEF CallFits
    <3>3. cursor[c] # k.cursor
      BY <1>0, <1>5, <2>2, <3>1, <3>2 DEF CursorInvariant, CursorsAccountedFor
    <3>. QED
      BY <3>1, <3>3 DEF CursorAfter
  <2>. QED
    BY <2>1, <2>2
<1>6. ASSUME NEW c \in Clients, NEW d \in Clients,
             cursor'[c] = cursor'[d], cursor'[c] # None
      PROVE  c = d
  <2>1. /\ cursor[c] # lastCursorId + 1
        /\ cursor[d] # lastCursorId + 1
    BY <1>0 DEF CursorInvariant
  <2>. QED
    BY <1>6, <2>1, CursorValues DEF CursorInvariant, CursorsAccountedFor
<1>7. ASSUME NEW id \in cursorMap'
      PROVE  \/ \E c \in Clients : cursor'[c] = id \/ epoch'[c] > 0
             \/ \E j \in inFlight' : j.kind = "cursorCancel" /\ j.cursor = id
  <2>1. ~Awaits(k) => epoch'[k.client] > 0
    BY <1>0, <1>1 DEF Awaits, CallFits
  <2>2. CASE id \notin cursorMap
    <3>1. id = lastCursorId + 1 /\ (Awaits(k) => cursor'[k.client] = lastCursorId + 1)
      BY <1>7, <2>2 DEF CursorAfter
    <3>. QED
      BY <1>0, <2>1, <3>1
  <2>3. CASE id \in cursorMap
    <3>1. CASE \E j \in inFlight : j.kind = "cursorCancel" /\ j.cursor = id
      <4>1. PICK j \in inFlight : j.kind = "cursorCancel" /\ j.cursor = id
        BY <3>1
      <4>2. j # k
        BY <1>7, <4>1 DEF CursorAfter
      <4>. QED
        BY <4>1, <4>2
    <3>2. CASE \E c \in Clients : cursor[c] = id \/ epoch[c] > 0
      <4>1. PICK c \in Clients : cursor[c] = id \/ epoch[c] > 0
        BY <3>2
      <4>2. CASE epoch[c] > 0
        BY <1>1, <4>2
      <4>3. CASE cursor[c] = id /\ cursor'[c] = cursor[c]
        BY <4>3
      <4>4. CASE cursor[c] = id /\ cursor'[c] # cursor[c]
        <5>1. c = k.client /\ Awaits(k)
          BY <4>4 DEF CursorAfter
        <5>2. id # None
          BY <1>0, <2>3 DEF CursorInvariant
        <5>3. k.kind \in {"cursorNext", "cursorCancel"} /\ cursorMap' = cursorMap \ {k.cursor}
          BY <4>4, <5>1, <5>2 DEF CursorAfter
        <5>4. k.cursor = id
          BY <4>4, <5>1, <5>2, <5>3 DEF CallFits
        <5>. QED
          BY <1>7, <5>3, <5>4
      <4>. QED
        BY <4>1, <4>2, <4>3, <4>4
    <3>. QED
      BY <2>3, <3>1, <3>2 DEF CursorInvariant, CursorsAccountedFor
  <2>. QED
    BY <2>2, <2>3
<1>8. CursorsAccountedFor'
  BY <1>5, <1>6, <1>7 DEF CursorsAccountedFor
<1>. QED
  BY <1>3, <1>4, <1>8

(* What an isolate does: it sends at most one call, and only if it awaits  *)
(* none; the call names the cursor it holds if it is about a cursor, and   *)
(* the isolate forgets a cursor that it closes.                            *)
LEMMA ClientCursor ==
  ASSUME TypeOK, NEW c \in Clients, Client(c)
  PROVE  \/ HotRestart(c)
         \/ UNCHANGED <<inFlight, cursor, waiting, epoch>>
         \/ /\ ~waiting[c] /\ waiting' = [waiting EXCEPT ![c] = TRUE]
            /\ epoch' = epoch
            /\ \E e \in inFlight' :
                 /\ inFlight' = inFlight \cup {e}
                 /\ e.client = c /\ e.epoch = epoch[c]
                 /\ \/ /\ cursor' = cursor /\ e.cursor = None
                       /\ e.kind \notin {"cursorNext", "cursorCancel"}
                       /\ e.kind \in {"begin", "query"} => cursor[c] = None
                    \/ /\ cursor' = cursor /\ e.cursor = cursor[c]
                       /\ e.kind = "cursorNext"
                    \/ /\ cursor' = [cursor EXCEPT ![c] = None]
                       /\ e.cursor = cursor[c] /\ e.kind = "cursorCancel"
<1>. DEFINE Sent(kind, id) ==
       /\ ~waiting[c] /\ waiting' = [waiting EXCEPT ![c] = TRUE]
       /\ epoch' = epoch
       /\ \E e \in inFlight' :
            /\ inFlight' = inFlight \cup {e}
            /\ e.client = c /\ e.epoch = epoch[c]
            /\ e.kind = kind /\ e.cursor = id
<1>1. ASSUME NEW kind, NEW tid, NEW id, Invoke(c, kind, tid, id) PROVE Sent(kind, id)
  <2>. DEFINE e == [kind |-> kind, client |-> c, epoch |-> epoch[c], tid |-> tid,
                    cursor |-> id]
  <2>1. e \in inFlight' /\ inFlight' = inFlight \cup {e}
    BY <1>1 DEF Invoke
  <2>2. e.client = c /\ e.epoch = epoch[c] /\ e.kind = kind /\ e.cursor = id
    OBVIOUS
  <2>. HIDE DEF e
  <2>. QED
    BY <1>1, <2>1, <2>2 DEF Invoke
<1>. HIDE DEF Sent
<1>2. ASSUME NEW kind, kind \notin {"cursorNext", "cursorCancel"},
             kind \in {"begin", "query"} => cursor[c] = None,
             cursor' = cursor, Sent(kind, None)
      PROVE  /\ ~waiting[c] /\ waiting' = [waiting EXCEPT ![c] = TRUE]
             /\ epoch' = epoch
             /\ \E e \in inFlight' :
                  /\ inFlight' = inFlight \cup {e}
                  /\ e.client = c /\ e.epoch = epoch[c]
                  /\ cursor' = cursor /\ e.cursor = None
                  /\ e.kind \notin {"cursorNext", "cursorCancel"}
                  /\ e.kind \in {"begin", "query"} => cursor[c] = None
  BY <1>2 DEF Sent
<1>3. CASE Reopen(c)
  BY <1>3 DEF Reopen
<1>4. CASE HotRestart(c)
  BY <1>4
<1>5. CASE RollbackRecovered(c)
  BY <1>1, <1>2, <1>5 DEF RollbackRecovered
<1>6. CASE BeginTransaction(c)
  BY <1>1, <1>2, <1>6 DEF BeginTransaction
<1>7. CASE CallStatement(c)
  BY <1>1, <1>2, <1>7 DEF CallStatement
<1>8. CASE CallBatch(c)
  BY <1>1, <1>2, <1>8 DEF CallBatch
<1>9. CASE QueryCursor(c)
  BY <1>1, <1>2, <1>9 DEF QueryCursor
<1>10. CASE MoveNext(c)
  BY <1>1, <1>10 DEF MoveNext, Sent
<1>11. CASE CloseCursor(c)
  BY <1>1, <1>11 DEF CloseCursor, Sent
<1>12. CASE EndTransaction(c)
  <2>1. PICK kind \in {"commit", "rollback"} : Invoke(c, kind, held[c], None)
    BY <1>12 DEF EndTransaction
  <2>. QED
    BY <1>1, <1>2, <1>12, <2>1 DEF EndTransaction
<1>. QED
  BY <1>3, <1>4, <1>5, <1>6, <1>7, <1>8, <1>9, <1>10, <1>11, <1>12 DEF Client

(* A restarted isolate awaits nothing and holds no cursor. *)
LEMMA RestartKeepsCursors ==
  ASSUME TypeOK, CursorInvariant, NEW c \in Clients, HotRestart(c)
  PROVE  CursorInvariant'
<1>0. /\ epoch \in [Clients -> Nat] /\ cursor \in [Clients -> Nat]
      /\ waiting \in [Clients -> BOOLEAN] /\ lastCursorId \in Nat /\ None = 0
      /\ inFlight \subseteq Operation
      /\ noTransactionOperationQueue \in Seq(Operation)
      /\ epoch[c] \in Nat
  BY DEF TypeOK, None
<1>1. /\ UNCHANGED <<inFlight, noTransactionOperationQueue, cursorMap, lastCursorId>>
      /\ epoch'[c] = epoch[c] + 1 /\ cursor'[c] = None
      /\ \A d \in Clients : d # c => /\ epoch'[d] = epoch[d]
                                     /\ cursor'[d] = cursor[d]
                                     /\ waiting'[d] = waiting[d]
  BY <1>0 DEF HotRestart, cursorVars
<1>2. ASSUME NEW j \in Operation, CallFits(j)
      PROVE  CallFits(j)' /\ (Awaits(j)' => Awaits(j) /\ j.client # c)
  <2>1. j.client \in Clients /\ j.epoch \in Nat /\ j.epoch <= epoch[j.client]
    BY <1>2 DEF CallFits, Operation
  <2>2. ASSUME j.client = c
        PROVE  j.epoch <= epoch'[j.client] /\ j.epoch # epoch'[j.client]
    BY <1>0, <1>1, <2>1, <2>2
  <2>3. j.epoch <= epoch'[j.client]
    BY <1>1, <2>1, <2>2
  <2>4. Awaits(j)' => Awaits(j) /\ j.client # c
    BY <1>1, <2>1, <2>2 DEF Awaits
  <2>5. ASSUME NEW d \in Clients, j.cursor # None,
               ~(Awaits(j)' /\ j.kind = "cursorNext")
        PROVE  cursor'[d] # j.cursor
    <3>1. CASE d = c
      BY <1>1, <2>5, <3>1
    <3>2. CASE d # c /\ ~(Awaits(j) /\ j.kind = "cursorNext")
      BY <1>1, <1>2, <2>5, <3>2 DEF CallFits
    <3>3. CASE d # c /\ Awaits(j) /\ j.kind = "cursorNext"
      <4>1. j.client = c
        BY <1>1, <2>1, <2>5, <3>3 DEF Awaits
      <4>2. cursor[c] = j.cursor
        BY <1>2, <3>3, <4>1 DEF CallFits
      <4>. QED
        BY <1>1, <2>5, <3>3, <4>2 DEF CursorInvariant, CursorsAccountedFor
    <3>. QED
      BY <3>1, <3>2, <3>3
  <2>. QED
    BY <1>1, <1>2, <2>1, <2>3, <2>4, <2>5 DEF CallFits
<1>3. /\ \A k \in inFlight : k \in Operation /\ CallFits(k)
      /\ \A i \in DOMAIN noTransactionOperationQueue :
           /\ noTransactionOperationQueue[i] \in Operation
           /\ CallFits(noTransactionOperationQueue[i])
  <2>1. \A i \in DOMAIN noTransactionOperationQueue :
          noTransactionOperationQueue[i] \in Operation
    BY <1>0
  <2>. QED
    BY <1>0, <2>1 DEF CursorInvariant
<1>4. ASSUME NEW i \in Operation, NEW j \in Operation,
             CallFits(i), CallFits(j), Apart(i, j)
      PROVE  Apart(i, j)'
  BY <1>2, <1>4 DEF Apart
<1>5. OneCall'
  BY <1>1, <1>3, <1>4 DEF OneCall, CursorInvariant
<1>6. CursorsAccountedFor'
  <2>1. \A d \in Clients : cursor'[d] # None => d # c /\ cursor'[d] = cursor[d]
    BY <1>1
  <2>2. \A d \in Clients : \/ cursor'[d] = cursor[d] /\ epoch'[d] = epoch[d]
                         \/ epoch'[d] > 0
    BY <1>0, <1>1
  <2>. QED
    BY <1>1, <2>1, <2>2 DEF CursorInvariant, CursorsAccountedFor
<1>7. \A d \in Clients : cursor'[d] <= lastCursorId'
  BY <1>0, <1>1 DEF CursorInvariant
<1>. QED
  BY <1>1, <1>2, <1>3, <1>5, <1>6, <1>7 DEF CursorInvariant

(* A call that an isolate sends says what is true, and is its only one.    *)
LEMMA InvokeKeepsCursors ==
  ASSUME TypeOK, TypeOK', CursorInvariant, NEW c \in Clients,
         UNCHANGED <<noTransactionOperationQueue, cursorVars>>,
         ~waiting[c], waiting' = [waiting EXCEPT ![c] = TRUE], epoch' = epoch,
         NEW e \in inFlight', inFlight' = inFlight \cup {e},
         e.client = c, e.epoch = epoch[c],
         \/ /\ cursor' = cursor /\ e.cursor = None
            /\ e.kind \notin {"cursorNext", "cursorCancel"}
            /\ e.kind \in {"begin", "query"} => cursor[c] = None
         \/ /\ cursor' = cursor /\ e.cursor = cursor[c]
            /\ e.kind = "cursorNext"
         \/ /\ cursor' = [cursor EXCEPT ![c] = None]
            /\ e.cursor = cursor[c] /\ e.kind = "cursorCancel"
  PROVE  CursorInvariant'
<1>0. /\ epoch \in [Clients -> Nat] /\ cursor \in [Clients -> Nat]
      /\ waiting \in [Clients -> BOOLEAN] /\ lastCursorId \in Nat /\ None = 0
      /\ inFlight \subseteq Operation /\ e \in Operation
      /\ noTransactionOperationQueue \in Seq(Operation)
  BY DEF TypeOK, None
<1>1. /\ lastCursorId' = lastCursorId /\ cursorMap' = cursorMap
      /\ noTransactionOperationQueue' = noTransactionOperationQueue
  BY DEF cursorVars
<1>2. /\ \A d \in Clients : d # c => cursor'[d] = cursor[d] /\ waiting'[d] = waiting[d]
      /\ cursor'[c] \in {cursor[c], None}
      /\ waiting'[c]
  BY <1>0
<1>3. ASSUME NEW d \in Clients
      PROVE  cursor'[d] \in {cursor[d], None} /\ cursor'[d] <= lastCursorId'
  BY <1>0, <1>1, <1>2 DEF CursorInvariant
<1>4. ASSUME NEW j \in Operation, CallFits(j)
      PROVE  /\ CallFits(j)'
             /\ Awaits(j)' = Awaits(j)
             /\ Awaits(j) => j.client # c
  <2>1. j.client \in Clients
    BY DEF Operation
  <2>2. Awaits(j) => j.client # c
    BY <1>4 DEF CallFits
  <2>3. Awaits(j)' = Awaits(j)
    BY DEF Awaits
  <2>4. CallFits(j)'
    BY <1>1, <1>2, <1>3, <1>4, <2>1, <2>2, <2>3 DEF CallFits
  <2>. QED
    BY <2>2, <2>3, <2>4
<1>5. /\ \A k \in inFlight : k \in Operation /\ CallFits(k)
      /\ \A i \in DOMAIN noTransactionOperationQueue :
           /\ noTransactionOperationQueue[i] \in Operation
           /\ CallFits(noTransactionOperationQueue[i])
  <2>1. \A i \in DOMAIN noTransactionOperationQueue :
          noTransactionOperationQueue[i] \in Operation
    BY <1>0
  <2>. QED
    BY <1>0, <2>1 DEF CursorInvariant
<1>6. CallFits(e)'
  <2>1. e.cursor <= lastCursorId' /\ e.epoch <= epoch'[e.client]
    <3>1. cursor[c] <= lastCursorId /\ None <= lastCursorId /\ epoch[c] <= epoch[c]
      BY <1>0 DEF CursorInvariant
    <3>. QED
      BY <1>1, <3>1
  <2>2. Awaits(e)' /\ waiting'[e.client]
    BY <1>2 DEF Awaits
  <2>3. e.kind \in {"begin", "query", "cursorCancel"} => cursor'[e.client] = None
    BY <1>0
  <2>4. e.kind = "cursorNext" => cursor'[e.client] = e.cursor
    OBVIOUS
  <2>5. ASSUME NEW d \in Clients, e.cursor # None, e.kind # "cursorNext"
        PROVE  cursor'[d] # e.cursor
    <3>1. e.cursor = cursor[c] /\ cursor' = [cursor EXCEPT ![c] = None]
      BY <2>5
    <3>. QED
      BY <1>0, <2>5, <3>1 DEF CursorInvariant, CursorsAccountedFor
  <2>. QED
    BY <2>1, <2>2, <2>3, <2>4, <2>5 DEF CallFits
<1>7. ASSUME NEW j \in Operation, CallFits(j)
      PROVE  Apart(j, e)' /\ Apart(e, j)'
  BY <1>4, <1>7 DEF Apart
<1>8. ASSUME NEW i \in Operation, NEW j \in Operation,
             CallFits(i), CallFits(j), Apart(i, j)
      PROVE  Apart(i, j)'
  BY <1>4, <1>8 DEF Apart
<1>9. OneCall'
  BY <1>1, <1>5, <1>7, <1>8 DEF OneCall, CursorInvariant
<1>10. CursorsAccountedFor'
  <2>1. \A d \in Clients : cursor'[d] # None => cursor'[d] = cursor[d]
    BY <1>3
  <2>2. ASSUME NEW id \in cursorMap
        PROVE  \/ \E d \in Clients : cursor'[d] = id \/ epoch'[d] > 0
               \/ \E k \in inFlight' : k.kind = "cursorCancel" /\ k.cursor = id
    <3>1. CASE \E k \in inFlight : k.kind = "cursorCancel" /\ k.cursor = id
      BY <3>1
    <3>2. CASE \E d \in Clients : epoch[d] > 0
      BY <3>2
    <3>3. CASE \E d \in Clients : cursor[d] = id
      BY <1>0, <1>2, <3>3
    <3>. QED
      BY <3>1, <3>2, <3>3 DEF CursorInvariant, CursorsAccountedFor
  <2>. QED
    BY <1>1, <2>1, <2>2 DEF CursorInvariant, CursorsAccountedFor
<1>. QED
  BY <1>1, <1>3, <1>4, <1>5, <1>6, <1>9, <1>10 DEF CursorInvariant

(* A handler keeps the invariant, whether the call comes from the serial   *)
(* queue or from the parked ones.                                          *)
LEMMA HandlerKeepsCursors ==
  ASSUME NEW k \in Operation, TypeOK, CursorInvariant, CallFits(k),
         Run(k) \/ DoBatch(k) \/ DoCursorNext(k) \/ DoCursorCancel(k),
         \/ /\ k \in inFlight /\ inFlight' = inFlight \ {k}
            /\ noTransactionOperationQueue' = noTransactionOperationQueue
         \/ /\ inFlight' = inFlight /\ noTransactionOperationQueue # <<>>
            /\ k = Head(noTransactionOperationQueue)
            /\ noTransactionOperationQueue' = Tail(noTransactionOperationQueue)
  PROVE  CursorInvariant'
<1>0. /\ inFlight \subseteq Operation
      /\ noTransactionOperationQueue \in Seq(Operation)
      /\ \A i \in DOMAIN noTransactionOperationQueue :
           noTransactionOperationQueue[i] \in Operation
  BY DEF TypeOK
<1>1. CursorAfter(k)
  BY HandlerCursor
<1>2. \A j \in inFlight' : j \in inFlight /\ Apart(j, k)
  <2>1. CASE k \in inFlight /\ inFlight' = inFlight \ {k}
    BY <2>1 DEF CursorInvariant, OneCall
  <2>2. CASE /\ inFlight' = inFlight /\ noTransactionOperationQueue # <<>>
             /\ k = Head(noTransactionOperationQueue)
    <3>1. 1 \in DOMAIN noTransactionOperationQueue /\ k = noTransactionOperationQueue[1]
      BY <1>0, <2>2
    <3>. QED
      BY <2>2, <3>1 DEF CursorInvariant, OneCall
  <2>. QED
    BY <2>1, <2>2
<1>3. \E n \in {0, 1} :
        \A i \in DOMAIN noTransactionOperationQueue' :
          /\ i \in Nat /\ i + n \in DOMAIN noTransactionOperationQueue
          /\ noTransactionOperationQueue'[i] = noTransactionOperationQueue[i + n]
          /\ Apart(noTransactionOperationQueue[i + n], k)
  <2>1. CASE /\ k \in inFlight
             /\ noTransactionOperationQueue' = noTransactionOperationQueue
    <3>1. ASSUME NEW i \in DOMAIN noTransactionOperationQueue
          PROVE  Apart(noTransactionOperationQueue[i], k)
      BY <2>1 DEF CursorInvariant, OneCall, Apart
    <3>2. \A i \in DOMAIN noTransactionOperationQueue : i \in Nat /\ i + 0 = i
      BY <1>0
    <3>. QED
      BY <2>1, <3>1, <3>2
  <2>2. CASE /\ inFlight' = inFlight /\ noTransactionOperationQueue # <<>>
             /\ k = Head(noTransactionOperationQueue)
             /\ noTransactionOperationQueue' = Tail(noTransactionOperationQueue)
    <3>1. 1 \in DOMAIN noTransactionOperationQueue /\ k = noTransactionOperationQueue[1]
      BY <1>0, <2>2
    <3>2. \A i \in DOMAIN noTransactionOperationQueue' :
            /\ i \in Nat /\ i + 1 \in DOMAIN noTransactionOperationQueue
            /\ i + 1 # 1
            /\ noTransactionOperationQueue'[i] = noTransactionOperationQueue[i + 1]
      BY <1>0, <2>2
    <3>3. \A i \in DOMAIN noTransactionOperationQueue :
            i # 1 => Apart(noTransactionOperationQueue[i], k)
      BY <3>1 DEF CursorInvariant, OneCall
    <3>. QED
      BY <3>2, <3>3
  <2>. QED
    BY <2>1, <2>2
<1>4. PICK n \in {0, 1} :
        \A i \in DOMAIN noTransactionOperationQueue' :
          /\ i \in Nat /\ i + n \in DOMAIN noTransactionOperationQueue
          /\ noTransactionOperationQueue'[i] = noTransactionOperationQueue[i + n]
          /\ Apart(noTransactionOperationQueue[i + n], k)
  BY <1>3
<1>5. ASSUME NEW j \in Operation, CallFits(j), Apart(j, k) PROVE CallFits(j)'
  BY <1>1, <1>5, CallKept
<1>6. ASSUME NEW i \in Operation, NEW j \in Operation, Apart(i, j)
      PROVE  Apart(i, j)'
  BY <1>1, <1>6 DEF Apart, Awaits, CursorAfter
<1>7. \A j \in inFlight' : CallFits(j)'
  BY <1>0, <1>2, <1>5 DEF CursorInvariant
<1>8. ASSUME NEW i \in DOMAIN noTransactionOperationQueue'
      PROVE  CallFits(noTransactionOperationQueue[i])'
  <2>1. PICK j \in Operation : j = noTransactionOperationQueue'[i] /\ CallFits(j) /\ Apart(j, k)
    BY <1>0, <1>4 DEF CursorInvariant
  <2>2. CallFits(j)'
    BY <1>5, <2>1
  <2>. QED
    BY <2>1, <2>2 DEF CallFits, Awaits
<1>9. ASSUME NEW i \in DOMAIN noTransactionOperationQueue',
             NEW j \in DOMAIN noTransactionOperationQueue', i # j
      PROVE  Apart(noTransactionOperationQueue[i], noTransactionOperationQueue[j])'
  <2>1. i + n # j + n
    BY <1>4, <1>9
  <2>2. PICK a \in Operation, b \in Operation :
          /\ a = noTransactionOperationQueue'[i] /\ b = noTransactionOperationQueue'[j]
          /\ Apart(a, b)
    BY <1>0, <1>4, <2>1 DEF CursorInvariant, OneCall
  <2>3. Apart(a, b)'
    BY <1>6, <2>2
  <2>. QED
    BY <2>2, <2>3 DEF Apart, Awaits
<1>10. ASSUME NEW j \in inFlight', NEW i \in DOMAIN noTransactionOperationQueue'
       PROVE  Apart(j, noTransactionOperationQueue[i])'
  <2>1. PICK a \in Operation : a = noTransactionOperationQueue'[i] /\ Apart(j, a)
    BY <1>0, <1>2, <1>4 DEF CursorInvariant, OneCall
  <2>2. Apart(j, a)'
    BY <1>0, <1>2, <1>6, <2>1
  <2>. QED
    BY <2>1, <2>2 DEF Apart, Awaits
<1>11. \A i, j \in inFlight' : i = j \/ Apart(i, j)'
  BY <1>0, <1>2, <1>6 DEF CursorInvariant, OneCall
<1>12. OneCall'
  BY <1>9, <1>10, <1>11 DEF OneCall
<1>13. \A j \in inFlight : j = k \/ j \in inFlight'
  OBVIOUS
<1>14. /\ \A c \in Clients : cursor'[c] <= lastCursorId'
       /\ cursorMap' \subseteq 1 .. lastCursorId'
       /\ CursorsAccountedFor'
  BY <1>1, <1>13, HandlerAccounts
<1>. QED
  BY <1>7, <1>8, <1>12, <1>14 DEF CursorInvariant

(* Parking a call leaves it unanswered. *)
LEMMA ParkKeepsCursors ==
  ASSUME TypeOK, CursorInvariant, NEW k \in inFlight, QueueForLater(k)
  PROVE  CursorInvariant'
<1>. DEFINE q == noTransactionOperationQueue
<1>0. /\ inFlight \subseteq Operation /\ q \in Seq(Operation)
      /\ q' = Append(q, k) /\ inFlight' = inFlight \ {k} /\ Len(q) \in Nat
      /\ UNCHANGED <<cursorMap, lastCursorId, cursor, waiting, epoch>>
      /\ k.kind # "cursorCancel"
  BY DEF TypeOK, QueueForLater, NextBlock, Wrapped, cursorVars, clientVars
<1>1. /\ \A j \in Operation : CallFits(j)' <=> CallFits(j)
      /\ \A i, j \in Operation : Apart(i, j)' <=> Apart(i, j)
  BY <1>0 DEF CallFits, Apart, Awaits
<1>2. ASSUME NEW i \in DOMAIN q'
      PROVE  \/ i \in DOMAIN q /\ q'[i] = q[i]
             \/ i \notin DOMAIN q /\ i = Len(q) + 1 /\ q'[i] = k
  BY <1>0
<1>3. \A i \in DOMAIN q : q[i] \in Operation
  BY <1>0
<1>. HIDE DEF q
<1>4. ASSUME NEW i \in DOMAIN q' PROVE CallFits(q[i])'
  <2>1. PICK j \in Operation : j = q'[i] /\ CallFits(j)
    BY <1>0, <1>2, <1>3 DEF CursorInvariant, q
  <2>2. CallFits(j)'
    BY <1>1, <2>1
  <2>. QED
    BY <2>1, <2>2 DEF CallFits, Awaits
<1>5. ASSUME NEW i \in DOMAIN q', NEW j \in DOMAIN q', i # j
      PROVE  Apart(q[i], q[j])'
  <2>1. \A m \in DOMAIN q : Apart(q[m], k) /\ Apart(k, q[m])
    BY DEF CursorInvariant, OneCall, Apart, q
  <2>2. \A m, o \in DOMAIN q : m # o => Apart(q[m], q[o])
    BY DEF CursorInvariant, OneCall, q
  <2>3. PICK a \in Operation, b \in Operation :
          a = q'[i] /\ b = q'[j] /\ Apart(a, b)
    BY <1>0, <1>2, <1>3, <1>5, <2>1, <2>2
  <2>4. Apart(a, b)'
    BY <1>1, <2>3
  <2>. QED
    BY <2>3, <2>4 DEF Apart, Awaits
<1>6. ASSUME NEW j \in inFlight', NEW i \in DOMAIN q'
      PROVE  Apart(j, q[i])'
  <2>1. PICK a \in Operation : a = q'[i] /\ Apart(j, a)
    BY <1>0, <1>2, <1>3 DEF CursorInvariant, OneCall, q
  <2>2. Apart(j, a)'
    BY <1>0, <1>1, <2>1
  <2>. QED
    BY <2>1, <2>2 DEF Apart, Awaits
<1>7. \A j \in inFlight' : CallFits(j)'
  BY <1>0, <1>1 DEF CursorInvariant
<1>8. \A i, j \in inFlight' : i = j \/ Apart(i, j)'
  BY <1>0, <1>1 DEF CursorInvariant, OneCall
<1>9. CursorsAccountedFor'
  <2>1. \A id : (\E j \in inFlight : j.kind = "cursorCancel" /\ j.cursor = id)
              => \E j \in inFlight' : j.kind = "cursorCancel" /\ j.cursor = id
    BY <1>0
  <2>. QED
    BY <1>0, <2>1 DEF CursorInvariant, CursorsAccountedFor
<1>10. OneCall'
  BY <1>5, <1>6, <1>8 DEF OneCall, q
<1>. QED
  BY <1>0, <1>4, <1>7, <1>9, <1>10 DEF CursorInvariant, q

(* Every step keeps it. *)
LEMMA CursorStep ==
  ASSUME TypeOK, CursorInvariant, [Next]_vars
  PROVE  CursorInvariant'
<1>1. ASSUME NEW k \in inFlight, Handle(k) PROVE CursorInvariant'
  <2>0. k \in Operation /\ CallFits(k)
    BY DEF TypeOK, CursorInvariant
  <2>1. CASE QueueForLater(k)
    BY <2>1, ParkKeepsCursors
  <2>2. CASE RunOutsideTransaction(k) \/ RunInTransaction(k) \/ RunUnwrapped(k)
    <3>1. /\ Run(k) \/ DoBatch(k) \/ DoCursorNext(k) \/ DoCursorCancel(k)
          /\ inFlight' = inFlight \ {k}
          /\ noTransactionOperationQueue' = noTransactionOperationQueue
      BY <2>2 DEF RunOutsideTransaction, RunInTransaction, RunUnwrapped, NextBlock
    <3>. QED
      BY <2>0, <3>1, HandlerKeepsCursors
  <2>. QED
    BY <1>1, <2>1, <2>2 DEF Handle
<1>2. CASE RunQueuedOperation
  <2>. DEFINE k == Head(noTransactionOperationQueue)
  <2>1. k \in Operation /\ k = noTransactionOperationQueue[1]
        /\ 1 \in DOMAIN noTransactionOperationQueue
    <3>1. noTransactionOperationQueue \in Seq(Operation) /\ noTransactionOperationQueue # <<>>
      BY <1>2 DEF RunQueuedOperation, TypeOK
    <3>. QED
      BY <3>1
  <2>2. CallFits(k)
    BY <2>1 DEF CursorInvariant
  <2>3. /\ Run(k) /\ inFlight' = inFlight
        /\ noTransactionOperationQueue # <<>>
        /\ noTransactionOperationQueue' = Tail(noTransactionOperationQueue)
    BY <1>2 DEF RunQueuedOperation
  <2>. QED
    BY <2>1, <2>2, <2>3, HandlerKeepsCursors
<1>3. CASE StopRunQueued
  BY <1>3 DEF StopRunQueued, CursorInvariant, CallFits, Awaits, OneCall, Apart,
     CursorsAccountedFor, cursorVars, clientVars
<1>4. ASSUME NEW c \in Clients, Client(c) PROVE CursorInvariant'
  <2>0. UNCHANGED <<noTransactionOperationQueue, cursorVars>> /\ TypeOK'
    BY <1>4, ClientStep, NextTyped DEF Next
  <2>1. CASE HotRestart(c)
    BY <2>1, RestartKeepsCursors
  <2>2. CASE UNCHANGED <<inFlight, cursor, waiting, epoch>>
    BY <2>0, <2>2 DEF CursorInvariant, CallFits, Awaits, OneCall, Apart,
       CursorsAccountedFor, cursorVars
  <2>. QED
    BY <1>4, <2>0, <2>1, <2>2, ClientCursor, InvokeKeepsCursors
<1>5. CASE UNCHANGED vars
  BY <1>5 DEF vars, CursorInvariant, CallFits, Awaits, OneCall, Apart,
     CursorsAccountedFor, cursorVars, clientVars
<1>. QED
  BY <1>1, <1>2, <1>3, <1>4, <1>5 DEF Next, Queue

(* The cursor an isolate holds is open on the native side and is nobody    *)
(* else's, whatever the order of its calls, its restarts and those of the  *)
(* others; and until some isolate restarts no cursor stays open that is    *)
(* neither held nor about to be closed.                                    *)
THEOREM CursorsFound == Spec => []CursorsAccountedFor
<1>1. Init => CursorInvariant
  <2>. SUFFICES ASSUME Init PROVE CursorInvariant
    OBVIOUS
  <2>1. DOMAIN noTransactionOperationQueue = {} /\ inFlight = {} /\ cursorMap = {}
    BY DEF Init
  <2>2. \A c \in Clients : cursor[c] = None /\ cursor[c] <= lastCursorId
    BY DEF Init, None
  <2>. QED
    BY <2>1, <2>2 DEF CursorInvariant, OneCall, CursorsAccountedFor
<1>2. CursorInvariant => CursorsAccountedFor
  BY DEF CursorInvariant
<1>. QED
  BY <1>1, <1>2, CursorStep, TypeCorrect, PTL DEF Spec
=============================================================================
