------------------------ MODULE SqfliteDatabaseProofs ------------------------
(***************************************************************************)
(* What is true of the Dart Database objects and the sqflite isolate for   *)
(* every number of callers and Database objects.                           *)
(*                                                                         *)
(* The argument is layered; each invariant is inductive given those before *)
(* it:                                                                     *)
(*   LockInvariant    types, _rawLock, calls on a transaction, the loop of *)
(*                    the queued handlers; whatever SQLite does.           *)
(*   CallInvariant    while the connection is open: which message belongs  *)
(*                    to which caller, and which id to which transaction.  *)
(*   CloserInvariant  who closes, and that its ROLLBACK is the last thing  *)
(*                    that passes the lock on the way to the close.        *)
(*   CloseInvariant   if COMMIT does not fail: a current transaction has   *)
(*                    somebody to end it, before the close.                *)
(*   StoreInvariant   the current transaction is the one SQLite has open,  *)
(*                    and every call is on it.                             *)
(***************************************************************************)
EXTENDS SqfliteDatabase, TLAPS

-----------------------------------------------------------------------------
(* Sequences. *)

(* Append adds one last element and moves none. *)
LEMMA AppendFacts ==
  ASSUME NEW S, NEW s \in Seq(S), NEW e \in S
  PROVE  /\ Append(s, e) \in Seq(S) /\ Append(s, e) # <<>>
         /\ DOMAIN s = 1..Len(s) /\ Len(s) \in Nat
         /\ DOMAIN Append(s, e) = 1..(Len(s) + 1)
         /\ Append(s, e)[Len(s) + 1] = e
         /\ \A i \in DOMAIN s : Append(s, e)[i] = s[i]
         /\ Head(Append(s, e)) = IF s = <<>> THEN e ELSE Head(s)
  OBVIOUS

(* Tail moves every element but the first one place down. *)
LEMMA TailFacts ==
  ASSUME NEW S, NEW s \in Seq(S), s # <<>>
  PROVE  /\ Tail(s) \in Seq(S)
         /\ DOMAIN s = 1..Len(s) /\ Len(s) \in Nat \ {0}
         /\ DOMAIN Tail(s) = 1..(Len(s) - 1)
         /\ \A i \in DOMAIN Tail(s) : Tail(s)[i] = s[i + 1]
         /\ Head(s) = s[1] /\ Head(s) \in S
         /\ \A i \in DOMAIN s : i = 1 \/ i - 1 \in DOMAIN Tail(s)
  OBVIOUS

-----------------------------------------------------------------------------
(* The lock, the calls on a transaction and the loop of the handlers. *)

(* c is in the callback of o's transaction, or in a call made from it. *)
InTransaction(o) ==
  \/ at[o] \in {"callback", "finished"}
  \/ at[o] = "txnCall" /\ on[o].owner = o

(* Where a caller holds the lock of its database. *)
Holds(c) ==
  at[c] \in {"statement", "begin", "end", "forceRollback"} \/ InTransaction(c)

(* Only the first of the queue holds the lock, and nobody is twice in it. *)
LockQueue ==
  \A d \in Databases :
    /\ \A i \in DOMAIN rawLock[d] :
         /\ DatabaseOf[rawLock[d][i]] = d
         /\ at[rawLock[d][i]] = "waiting" \/ (i = 1 /\ Holds(rawLock[d][i]))
    /\ \A i, j \in DOMAIN rawLock[d] : rawLock[d][i] = rawLock[d][j] => i = j

(* Who holds the lock or waits for it is in the queue. *)
LockHeld ==
  \A c \in Callers :
    LET lock == rawLock[DatabaseOf[c]] IN
    /\ Holds(c) => lock # <<>> /\ Head(lock) = c
    /\ at[c] = "waiting" => \E i \in DOMAIN lock : lock[i] = c

LockWishes ==
  \A c \in Callers :
    wanted[c] \in IF at[c] = "waiting" THEN {"begin", "rollback"} \cup PlainCalls
                                       ELSE {"none"}

(* A call on a transaction is made while its callback runs. *)
CallsOn ==
  \A c \in Callers :
    at[c] = "txnCall" =>
      /\ InTransaction(on[c].owner)
      /\ DatabaseOf[on[c].owner] = DatabaseOf[c]
      /\ on[c].id = transaction[on[c].owner].id

Alone ==
  ~Overlap =>
    \A o, c, e \in Callers : c \in InFlightOn(o) /\ e \in InFlightOn(o) => c = e

QueueRuns ==
  runningQueued =>
    noTransactionHandlerQueue # <<>> /\ currentTransactionId = NoTransaction

LockInvariant ==
  /\ TypeOK
  /\ LockQueue /\ LockHeld /\ LockWishes
  /\ CallsOn /\ Alone /\ QueueRuns

-----------------------------------------------------------------------------
(* What the steps of a caller and of the isolate do, without their CASE.   *)

EntryPlace(what) ==
  IF what = "begin" THEN "begin"
  ELSE IF what = "rollback" THEN "forceRollback" ELSE "statement"

EntryId(what) == IF what = "rollback" THEN ForceId ELSE NoTransaction

(* Every way to enter the lock sends one message. *)
LEMMA EnterCases ==
  ASSUME NEW c \in Callers, NEW what, Enter(c, what)
  PROVE  /\ UNCHANGED <<answer, queueVars, idVars, sqliteVars>>
         /\ Goto(c, EntryPlace(what))
         /\ port' = Append(port, [kind |-> what, from |-> c,
                                  tid |-> EntryId(what)])
         /\ inTransaction' = IF what = "begin"
                               THEN [inTransaction EXCEPT ![DatabaseOf[c]] = TRUE]
                               ELSE inTransaction
         /\ begins' = IF what = "begin" THEN begins + 1 ELSE begins
<1>1. CASE what = "begin"
  BY <1>1 DEF Enter, Post, EntryPlace, EntryId
<1>2. CASE what = "rollback"
  BY <1>2 DEF Enter, Post, EntryPlace, EntryId
<1>3. CASE what \notin {"begin", "rollback"}
  BY <1>3 DEF Enter, Post, EntryPlace, EntryId
<1> QED BY <1>1, <1>2, <1>3

(* A caller that asks for the lock enters, or waits. *)
LEMMA SynchronizedCases ==
  ASSUME NEW c \in Callers, NEW what, Synchronized(c, what)
  PROVE  /\ rawLock' = [rawLock EXCEPT ![DatabaseOf[c]] = Append(@, c)]
         /\ UNCHANGED <<answer, queueVars, idVars, sqliteVars>>
         /\ \/ /\ rawLock[DatabaseOf[c]] = <<>>
               /\ Enter(c, what) /\ UNCHANGED wanted
            \/ /\ rawLock[DatabaseOf[c]] # <<>>
               /\ Goto(c, "waiting") /\ wanted' = [wanted EXCEPT ![c] = what]
               /\ UNCHANGED <<port, inTransaction, begins>>
<1>1. CASE rawLock[DatabaseOf[c]] = <<>>
  BY <1>1, EnterCases DEF Synchronized
<1>2. CASE rawLock[DatabaseOf[c]] # <<>>
  BY <1>2 DEF Synchronized, ffiVars
<1> QED BY <1>1, <1>2

(* A caller changes nothing of the isolate but its port and the answers. *)
LEMMA CallerFrame ==
  ASSUME NEW c \in Callers, Caller(c)
  PROVE  UNCHANGED <<queueVars, idVars, sqliteVars>>
<1>1. CASE CallDatabase(c)
  BY <1>1, SynchronizedCases DEF CallDatabase
<1>2. CASE \E o \in Callers : CallOnTransaction(c, o)
  BY <1>2 DEF CallOnTransaction, Post
<1>3. CASE FinishCallback(c)
  BY <1>3 DEF FinishCallback, ffiVars
<1>4. CASE Close(c)
  BY <1>4, SynchronizedCases DEF Close, SendClose, Post
<1>5. CASE Granted(c)
  BY <1>5, EnterCases DEF Granted
<1>6. CASE CallAnswered(c) \/ Began(c) \/ TransactionCallAnswered(c) \/ Ended(c)
           \/ RolledBack(c) \/ Closed(c)
  BY <1>6 DEF CallAnswered, Began, TransactionCallAnswered, Ended, RolledBack,
              Closed, Answered
<1>7. CASE EndTransaction(c)
  BY <1>7 DEF EndTransaction, ffiVars, Post
<1>8. CASE InvokeCloseDatabase(c)
  BY <1>8 DEF InvokeCloseDatabase, SendClose, Post
<1> QED BY <1>1, <1>2, <1>3, <1>4, <1>5, <1>6, <1>7, <1>8 DEF Caller, Continue

LEMMA InitLock == Init => LockInvariant
<1> SUFFICES ASSUME Init PROVE LockInvariant
  OBVIOUS
<1> USE DEF Init
<1>1. TypeOK
  <2>1. FfiTypeOK
    <3>1. port \in Seq(Message) /\ noTransactionHandlerQueue \in Seq(Message)
      BY DEF FfiInit
    <3>2. answer \in [Callers -> AnswerType]
      BY DEF FfiInit, AnswerType
    <3> QED BY <3>1, <3>2 DEF FfiInit, FfiTypeOK, NoTransaction
  <2>2. /\ at \in [Callers -> Places] /\ wanted \in [Callers -> Wishes]
        /\ isClosed \in [Databases -> BOOLEAN]
        /\ inTransaction \in [Databases -> BOOLEAN]
        /\ rawLock \in [Databases -> Seq(Callers)]
        /\ begins \in Nat
    BY DEF Places, Wishes
  <2>3. /\ transaction \in [Callers -> [id : Nat, closed : BOOLEAN]]
        /\ on \in [Callers -> [owner : Callers, id : Nat]]
    BY DEF Over, OnNone, NoTransaction
  <2> QED BY <2>1, <2>2, <2>3 DEF TypeOK
<1>2. LockQueue /\ LockHeld /\ LockWishes /\ CallsOn
  BY ConstantsAssumption
  DEF LockQueue, LockHeld, LockWishes, CallsOn, Holds, InTransaction
<1>3. Alone /\ QueueRuns
  BY DEF Alone, InFlightOn, QueueRuns, FfiInit
<1> QED BY <1>1, <1>2, <1>3 DEF LockInvariant

-----------------------------------------------------------------------------
(* Types. *)

LEMMA FfiTypeByCaller ==
  ASSUME FfiTypeOK, UNCHANGED <<queueVars, idVars, sqliteVars>>,
         port' \in Seq(Message), answer' \in [Callers -> AnswerType]
  PROVE  FfiTypeOK'
  BY DEF FfiTypeOK, queueVars, idVars, sqliteVars

LEMMA PostType ==
  ASSUME FfiTypeOK, NEW kind \in Kinds, NEW c \in Callers,
         NEW tid \in Nat \cup {ForceId}
  PROVE  Append(port, [kind |-> kind, from |-> c, tid |-> tid]) \in Seq(Message)
  BY DEF FfiTypeOK, Message

LEMMA AnsweredType ==
  ASSUME FfiTypeOK, NEW c \in Callers, Answered(c)
  PROVE  answer' \in [Callers -> AnswerType]
  BY DEF FfiTypeOK, Answered, AnswerType

(* A BEGIN that is granted carries the id of its transaction. *)
LEMMA OkType ==
  ASSUME FfiTypeOK, NEW c \in Callers, answer[c].ok
  PROVE  answer[c].id \in Nat
<1>1. answer[c] \in AnswerType
  BY DEF FfiTypeOK
<1> QED BY <1>1 DEF AnswerType, NoAnswer

(* The lock of c's database, when c leaves it. *)
LEMMA ReleaseType ==
  ASSUME TypeOK, LockHeld, NEW c \in Callers, Holds(c), Release(DatabaseOf[c])
  PROVE  rawLock' \in [Databases -> Seq(Callers)]
<1> DEFINE d == DatabaseOf[c]
<1>1. d \in Databases /\ rawLock[d] \in Seq(Callers) /\ rawLock[d] # <<>>
  BY ConstantsAssumption DEF TypeOK, LockHeld
<1>2. Tail(rawLock[d]) \in Seq(Callers)
  BY <1>1, TailFacts
<1> QED BY <1>1, <1>2 DEF Release, TypeOK

LEMMA EnterType ==
  ASSUME TypeOK, NEW c \in Callers,
         NEW what \in {"begin", "rollback"} \cup PlainCalls, Enter(c, what)
  PROVE  /\ FfiTypeOK' /\ at' \in [Callers -> Places]
         /\ inTransaction' \in [Databases -> BOOLEAN] /\ begins' \in Nat
<1>1. what \in Kinds /\ EntryId(what) \in Nat \cup {ForceId}
  BY ConstantsAssumption DEF Kinds, Statements, EntryId, NoTransaction
<1>2. EntryPlace(what) \in Places
  BY DEF EntryPlace, Places
<1>3. Append(port, [kind |-> what, from |-> c, tid |-> EntryId(what)])
         \in Seq(Message)
  BY <1>1, PostType DEF TypeOK
<1>4. port' \in Seq(Message) /\ answer' \in [Callers -> AnswerType]
  BY <1>3, EnterCases DEF TypeOK, FfiTypeOK
<1>5. FfiTypeOK'
  BY <1>4, EnterCases, FfiTypeByCaller DEF TypeOK
<1>a. /\ Goto(c, EntryPlace(what))
      /\ inTransaction' = IF what = "begin"
                            THEN [inTransaction EXCEPT ![DatabaseOf[c]] = TRUE]
                            ELSE inTransaction
      /\ begins' = IF what = "begin" THEN begins + 1 ELSE begins
  BY EnterCases
<1>6. at' \in [Callers -> Places]
  BY <1>2, <1>a DEF TypeOK, Goto
<1>7. inTransaction' \in [Databases -> BOOLEAN] /\ begins' \in Nat
  <2>1. CASE what = "begin"
    <3>1. /\ inTransaction' = [inTransaction EXCEPT ![DatabaseOf[c]] = TRUE]
          /\ begins' = begins + 1
      BY <1>a, <2>1
    <3>2. inTransaction' \in [Databases -> BOOLEAN]
      BY <3>1 DEF TypeOK
    <3> QED BY <3>1, <3>2 DEF TypeOK
  <2>2. CASE what # "begin"
    BY <1>a, <2>2 DEF TypeOK
  <2> QED BY <2>1, <2>2
<1> QED BY <1>5, <1>6, <1>7

LEMMA SynchronizedType ==
  ASSUME TypeOK, NEW c \in Callers,
         NEW what \in {"begin", "rollback"} \cup PlainCalls, Synchronized(c, what)
  PROVE  /\ FfiTypeOK' /\ at' \in [Callers -> Places]
         /\ inTransaction' \in [Databases -> BOOLEAN] /\ begins' \in Nat
         /\ rawLock' \in [Databases -> Seq(Callers)]
         /\ wanted' \in [Callers -> Wishes]
<1> DEFINE d == DatabaseOf[c]
<1>a. d \in Databases /\ rawLock[d] \in Seq(Callers)
  BY ConstantsAssumption DEF TypeOK
<1>b. Append(rawLock[d], c) \in Seq(Callers)
  BY <1>a, AppendFacts
<1>1. rawLock' \in [Databases -> Seq(Callers)]
  BY <1>a, <1>b, SynchronizedCases DEF TypeOK
<1>2. CASE Enter(c, what) /\ UNCHANGED wanted
  BY <1>1, <1>2, EnterType DEF TypeOK
<1>3. CASE /\ Goto(c, "waiting") /\ wanted' = [wanted EXCEPT ![c] = what]
           /\ UNCHANGED <<port, inTransaction, begins>>
  <2>1. FfiTypeOK'
    BY <1>3, SynchronizedCases, FfiTypeByCaller DEF TypeOK, FfiTypeOK
  <2>2. what \in Wishes
    BY ConstantsAssumption DEF Wishes, Kinds
  <2> QED BY <1>1, <1>3, <2>1, <2>2 DEF TypeOK, Goto, Places
<1> QED BY <1>2, <1>3, SynchronizedCases

LEMMA CallerType ==
  ASSUME LockInvariant, NEW c \in Callers, Caller(c)
  PROVE  TypeOK'
<1> USE DEF LockInvariant
<1> DEFINE d == DatabaseOf[c]
<1>a. d \in Databases
  BY ConstantsAssumption
<1>b. /\ port \in Seq(Message) /\ answer \in [Callers -> AnswerType]
      /\ FfiTypeOK
  BY DEF TypeOK, FfiTypeOK
<1>c. UNCHANGED <<queueVars, idVars, sqliteVars>>
  BY CallerFrame
<1>1. CASE CallDatabase(c)
  <2>1. PICK what \in {"begin", "rollback"} \cup PlainCalls :
               Synchronized(c, what)
    BY <1>1 DEF CallDatabase
  <2> QED BY <1>1, <2>1, SynchronizedType DEF CallDatabase, TypeOK
<1>2. ASSUME NEW o \in Callers, CallOnTransaction(c, o) PROVE TypeOK'
  <2>1. PICK kind \in TransactionCalls : Post(kind, c, transaction[o].id)
    BY <1>2 DEF CallOnTransaction
  <2>2. kind \in Kinds /\ transaction[o].id \in Nat
    BY ConstantsAssumption DEF Kinds, TypeOK
  <2>3. port' \in Seq(Message)
    BY <2>1, <2>2, <1>b, PostType DEF Post
  <2>4. FfiTypeOK'
    BY <1>2, <2>3, <1>b, <1>c, FfiTypeByCaller DEF CallOnTransaction
  <2> QED BY <1>2, <2>2, <2>4 DEF CallOnTransaction, TypeOK, Goto, Places
<1>3. CASE FinishCallback(c)
  <2>1. FfiTypeOK'
    BY <1>3, <1>b, <1>c, FfiTypeByCaller DEF FinishCallback, ffiVars
  <2> QED BY <1>3, <2>1 DEF FinishCallback, TypeOK, Goto, Places
<1>4. CASE Close(c)
  <2>1. isClosed' \in [Databases -> BOOLEAN] /\ UNCHANGED <<transaction, on>>
    BY <1>4 DEF Close, TypeOK
  <2>2. CASE Synchronized(c, "rollback")
    BY <2>1, <2>2, SynchronizedType DEF TypeOK
  <2>3. CASE /\ SendClose(c)
             /\ UNCHANGED <<answer, inTransaction, rawLock, wanted, begins>>
    <3>1. port' \in Seq(Message)
      BY <2>3, <1>b, PostType DEF SendClose, Post, Kinds, NoTransaction
    <3>2. FfiTypeOK'
      BY <2>3, <3>1, <1>b, <1>c, FfiTypeByCaller
    <3> QED BY <2>1, <2>3, <3>2 DEF SendClose, TypeOK, Goto, Places
  <2> QED BY <1>4, <2>2, <2>3 DEF Close
<1>5. CASE Granted(c)
  <2>1. wanted[c] \in {"begin", "rollback"} \cup PlainCalls
    BY <1>5 DEF Granted, LockWishes
  <2>2. Enter(c, wanted[c])
    BY <1>5 DEF Granted
  <2> HIDE DEF LockInvariant
  <2>3. /\ FfiTypeOK' /\ at' \in [Callers -> Places]
        /\ inTransaction' \in [Databases -> BOOLEAN] /\ begins' \in Nat
    BY <2>1, <2>2, EnterType DEF LockInvariant
  <2> QED BY <1>5, <2>3 DEF Granted, TypeOK, Wishes, LockInvariant
<1>6. CASE CallAnswered(c) \/ Ended(c) \/ RolledBack(c)
  <2>1. FfiTypeOK'
    BY <1>6, <1>b, <1>c, FfiTypeByCaller, AnsweredType
    DEF CallAnswered, Ended, RolledBack
  <2>2. Holds(c) /\ Release(DatabaseOf[c])
    BY <1>6 DEF CallAnswered, Ended, RolledBack, Holds
  <2>3. rawLock' \in [Databases -> Seq(Callers)]
    BY <2>2, ReleaseType
  <2>4. Over \in [id : Nat, closed : BOOLEAN]
    BY DEF Over, NoTransaction
  <2>5. transaction' \in [Callers -> [id : Nat, closed : BOOLEAN]]
    BY <1>6, <2>4 DEF CallAnswered, Ended, RolledBack, TypeOK
  <2> QED BY <1>6, <2>1, <2>3, <2>5
          DEF CallAnswered, Ended, RolledBack, TypeOK, Goto, Places
<1>7. CASE Began(c)
  <2>1. FfiTypeOK'
    BY <1>7, <1>b, <1>c, FfiTypeByCaller, AnsweredType DEF Began
  <2>2. CASE answer[c].ok
    <3>1. [id |-> answer[c].id, closed |-> FALSE] \in [id : Nat, closed : BOOLEAN]
      BY <2>2, <1>b, OkType
    <3>2. transaction' \in [Callers -> [id : Nat, closed : BOOLEAN]]
      BY <1>7, <2>2, <3>1 DEF Began, TypeOK
    <3> QED BY <1>7, <2>1, <2>2, <3>2 DEF Began, TypeOK, Goto, Places
  <2>3. CASE ~answer[c].ok
    <3>1. Holds(c) /\ Release(DatabaseOf[c])
      BY <1>7, <2>3 DEF Began, Holds
    <3>2. rawLock' \in [Databases -> Seq(Callers)]
      BY <3>1, ReleaseType
    <3> QED BY <1>7, <2>1, <2>3, <3>2 DEF Began, TypeOK, Goto, Places
  <2> QED BY <2>2, <2>3
<1>8. CASE TransactionCallAnswered(c)
  <2>1. FfiTypeOK'
    BY <1>8, <1>b, <1>c, FfiTypeByCaller, AnsweredType
    DEF TransactionCallAnswered
  <2>2. transaction' \in [Callers -> [id : Nat, closed : BOOLEAN]]
    BY <1>8 DEF TransactionCallAnswered, TypeOK
  <2> QED BY <1>8, <2>1, <2>2
          DEF TransactionCallAnswered, TypeOK, Goto, Places, OnNone, NoTransaction
<1>9. CASE EndTransaction(c)
  <2>1. inTransaction' \in [Databases -> BOOLEAN]
    BY <1>9 DEF EndTransaction, TypeOK
  <2>2. CASE transaction[c].closed
    <3>1. FfiTypeOK'
      BY <1>9, <2>2, <1>b, <1>c, FfiTypeByCaller DEF EndTransaction, ffiVars
    <3>2. Holds(c) /\ Release(DatabaseOf[c])
      BY <1>9, <2>2 DEF EndTransaction, Holds, InTransaction
    <3>3. rawLock' \in [Databases -> Seq(Callers)]
      BY <3>2, ReleaseType
    <3>4. Over \in [id : Nat, closed : BOOLEAN]
      BY DEF Over, NoTransaction
    <3>5. transaction' \in [Callers -> [id : Nat, closed : BOOLEAN]]
      BY <1>9, <2>2, <3>4 DEF EndTransaction, TypeOK
    <3> QED BY <1>9, <2>1, <2>2, <3>1, <3>3, <3>5
            DEF EndTransaction, TypeOK, Goto, Places
  <2>3. CASE ~transaction[c].closed
    <3>1. PICK kind \in {"commit", "rollback"} : Post(kind, c, transaction[c].id)
      BY <1>9, <2>3 DEF EndTransaction
    <3>2. port' \in Seq(Message)
      BY <3>1, <1>b, PostType DEF Post, Kinds, TypeOK
    <3>3. FfiTypeOK'
      BY <1>9, <2>3, <3>2, <1>b, <1>c, FfiTypeByCaller DEF EndTransaction
    <3> QED BY <1>9, <2>1, <2>3, <3>3 DEF EndTransaction, TypeOK, Goto, Places
  <2> QED BY <2>2, <2>3
<1>10. CASE InvokeCloseDatabase(c)
  <2>1. port' \in Seq(Message)
    BY <1>10, <1>b, PostType
    DEF InvokeCloseDatabase, SendClose, Post, Kinds, NoTransaction
  <2>2. FfiTypeOK'
    BY <1>10, <2>1, <1>b, <1>c, FfiTypeByCaller DEF InvokeCloseDatabase
  <2> QED BY <1>10, <2>2 DEF InvokeCloseDatabase, SendClose, TypeOK, Goto, Places
<1>11. CASE Closed(c)
  <2>1. FfiTypeOK'
    BY <1>11, <1>b, <1>c, FfiTypeByCaller, AnsweredType DEF Closed
  <2> QED BY <1>11, <2>1 DEF Closed, TypeOK, Goto, Places
<1> QED BY <1>1, <1>2, <1>3, <1>4, <1>5, <1>6, <1>7, <1>8, <1>9, <1>10, <1>11
        DEF Caller, Continue
(* A handler that throws answers with an error, which says whether the     *)
(* transaction was found closed.                                           *)
LEMMA ThrowCases ==
  ASSUME NEW m, Throw(m)
  PROVE  \/ /\ TransactionClosed(m) /\ currentTransactionId' = NoTransaction
            /\ Answer(m, FALSE, TRUE, NoTransaction)
         \/ /\ ~TransactionClosed(m) /\ UNCHANGED currentTransactionId
            /\ Answer(m, FALSE, FALSE, NoTransaction)
<1>1. CASE TransactionClosed(m)
  <2>1. TransactionClosed(m) = TRUE
    BY <1>1 DEF TransactionClosed
  <2> QED BY <1>1, <2>1 DEF Throw
<1>2. CASE ~TransactionClosed(m)
  <2>1. TransactionClosed(m) = FALSE
    BY <1>2 DEF TransactionClosed
  <2> QED BY <1>2, <2>1 DEF Throw
<1> QED BY <1>1, <1>2

(* What a handler answers is an answer, to the one that sent m. *)
LEMMA AnswerMade ==
  ASSUME FfiTypeOK, NEW m \in Message, NEW ok \in BOOLEAN, NEW closed \in BOOLEAN,
         NEW id \in Nat, Answer(m, ok, closed, id)
  PROVE  /\ answer' \in [Callers -> AnswerType]
         /\ \A c \in Callers : c # m.from => answer'[c] = answer[c]
         /\ answer'[m.from] = [ok |-> ok, closed |-> closed, id |-> id]
         /\ answer'[m.from] # NoAnswer
  BY DEF Answer, FfiTypeOK, AnswerType, Message, NoAnswer, ForceId

(* A handler keeps the types and answers the one that sent m. *)
LEMMA RunType ==
  ASSUME FfiTypeOK, NEW m \in Message, Run(m)
  PROVE  /\ answer' \in [Callers -> AnswerType]
         /\ currentTransactionId' \in Nat /\ lastTransactionId' \in Nat
         /\ isOpen' = isOpen /\ openTx' \in BOOLEAN
         /\ writes' \subseteq Nat \cup {ForceId}
         /\ durable' \subseteq Nat \cup {ForceId}
         /\ committed' \subseteq Nat \cup {ForceId}
         /\ \A c \in Callers : c # m.from => answer'[c] = answer[c]
         /\ answer'[m.from] # NoAnswer
<1>a. NoTransaction \in Nat /\ m.tid \in Nat \cup {ForceId}
  BY DEF NoTransaction, Message
<1>b. ASSUME Throw(m)
      PROVE  /\ answer' \in [Callers -> AnswerType]
             /\ currentTransactionId' \in Nat
             /\ \A c \in Callers : c # m.from => answer'[c] = answer[c]
             /\ answer'[m.from] # NoAnswer
  BY <1>a, <1>b, ThrowCases, AnswerMade DEF FfiTypeOK
<1>1. CASE HandleBegin(m)
  <2>1. lastTransactionId' \in Nat /\ lastTransactionId' = lastTransactionId + 1
    BY <1>1 DEF HandleBegin, FfiTypeOK
  <2>2. CASE /\ openTx' = TRUE /\ currentTransactionId' = lastTransactionId + 1
             /\ Answer(m, TRUE, FALSE, lastTransactionId + 1)
             /\ UNCHANGED <<isOpen, writes, durable, committed>>
    BY <2>1, <2>2, AnswerMade DEF FfiTypeOK
  <2>3. CASE /\ currentTransactionId' = NoTransaction
             /\ Answer(m, FALSE, FALSE, NoTransaction)
             /\ UNCHANGED sqliteVars
    BY <1>a, <2>1, <2>3, AnswerMade DEF FfiTypeOK, sqliteVars
  <2> QED BY <1>1, <2>2, <2>3 DEF HandleBegin
<1>2. CASE HandleStatement(m)
  <2>1. UNCHANGED lastTransactionId
    BY <1>2 DEF HandleStatement
  <2>2. Write(m.tid) \/ UNCHANGED sqliteVars \/ AutoRollback
    BY <1>2 DEF HandleStatement
  <2>3. /\ isOpen' = isOpen /\ openTx' \in BOOLEAN
        /\ writes' \subseteq Nat \cup {ForceId}
        /\ durable' \subseteq Nat \cup {ForceId}
        /\ committed' \subseteq Nat \cup {ForceId}
    BY <1>a, <2>2 DEF Write, AutoRollback, FfiTypeOK, sqliteVars
  <2>4. \/ Throw(m)
        \/ Answer(m, TRUE, FALSE, NoTransaction) /\ UNCHANGED currentTransactionId
    BY <1>2 DEF HandleStatement
  <2> QED BY <1>a, <1>b, <2>1, <2>3, <2>4, AnswerMade DEF FfiTypeOK
<1>3. ASSUME LeaveTransaction(m)
      PROVE  /\ answer' \in [Callers -> AnswerType]
             /\ currentTransactionId' \in Nat /\ lastTransactionId' \in Nat
             /\ isOpen' = isOpen /\ openTx' \in BOOLEAN /\ writes' = {}
             /\ \A c \in Callers : c # m.from => answer'[c] = answer[c]
             /\ answer'[m.from] # NoAnswer
  BY <1>3, <1>a, AnswerMade DEF LeaveTransaction, FfiTypeOK
<1>4. CASE HandleCommit(m)
  <2>1. CASE LeaveTransaction(m)
    BY <1>3, <1>4, <1>a, <2>1 DEF HandleCommit, FfiTypeOK, sqliteVars
  <2>2. CASE UNCHANGED <<sqliteVars, lastTransactionId>> /\ Throw(m)
    BY <1>b, <2>2 DEF FfiTypeOK, sqliteVars
  <2> QED BY <1>4, <2>1, <2>2 DEF HandleCommit
<1>5. CASE HandleRollback(m)
  <2>1. CASE LeaveTransaction(m) /\ UNCHANGED <<durable, committed>>
    BY <1>3, <2>1 DEF FfiTypeOK
  <2>2. CASE UNCHANGED <<sqliteVars, lastTransactionId>> /\ Throw(m)
    BY <1>b, <2>2 DEF FfiTypeOK, sqliteVars
  <2> QED BY <1>5, <2>1, <2>2 DEF HandleRollback
<1> QED BY <1>1, <1>2, <1>4, <1>5 DEF Run

(* What the isolate takes: a queued handler, or the next message. *)
LEMMA IsolateCases ==
  ASSUME LockInvariant, Isolate
  PROVE  \/ /\ RunQueuedHandler /\ currentTransactionId = NoTransaction
            /\ noTransactionHandlerQueue # <<>>
            /\ Head(noTransactionHandlerQueue) \in Message
         \/ \E m \in Message :
              HandleOutside(m) \/ HandleInTransaction(m) \/ QueueHandler(m)
              \/ HandleClose(m)
<1>1. CASE RunQueuedHandler
  <2>1. currentTransactionId = NoTransaction /\ noTransactionHandlerQueue # <<>>
    BY <1>1 DEF LockInvariant, QueueRuns, RunQueuedHandler
  <2> QED BY <1>1, <2>1, TailFacts DEF LockInvariant, TypeOK, FfiTypeOK
<1>2. CASE \/ HandleOutside(Head(port)) \/ HandleInTransaction(Head(port))
           \/ QueueHandler(Head(port)) \/ HandleClose(Head(port))
  <2>1. port # <<>>
    BY <1>2 DEF HandleOutside, HandleInTransaction, QueueHandler, HandleClose,
                NextMessage
  <2>2. Head(port) \in Message
    BY <2>1, TailFacts DEF LockInvariant, TypeOK, FfiTypeOK
  <2> QED BY <1>2, <2>2
<1> QED BY <1>1, <1>2 DEF Isolate

LEMMA IsolateType ==
  ASSUME LockInvariant, IsolateStep
  PROVE  TypeOK'
<1>a. FfiTypeOK /\ port \in Seq(Message)
      /\ noTransactionHandlerQueue \in Seq(Message)
  BY DEF LockInvariant, TypeOK, FfiTypeOK
<1>b. SUFFICES FfiTypeOK'
  BY DEF LockInvariant, IsolateStep, dartVars, TypeOK
<1>c. ASSUME NEW m, NextMessage(m) PROVE port' \in Seq(Message)
  BY <1>a, <1>c, TailFacts DEF NextMessage
<1>1. CASE /\ RunQueuedHandler /\ noTransactionHandlerQueue # <<>>
           /\ Head(noTransactionHandlerQueue) \in Message
  <2>1. noTransactionHandlerQueue' \in Seq(Message) /\ runningQueued' \in BOOLEAN
    BY <1>a, <1>1, TailFacts DEF RunQueuedHandler
  <2> QED BY <1>a, <1>1, <2>1, RunType DEF RunQueuedHandler, FfiTypeOK
<1>2. ASSUME NEW m \in Message, HandleOutside(m) PROVE FfiTypeOK'
  BY <1>a, <1>c, <1>2, RunType DEF HandleOutside, FfiTypeOK, queueVars
<1>3. ASSUME NEW m \in Message, HandleInTransaction(m) PROVE FfiTypeOK'
  <2>1. runningQueued' \in BOOLEAN
    BY <1>3 DEF HandleInTransaction
  <2> QED BY <1>a, <1>c, <1>3, <2>1, RunType DEF HandleInTransaction, FfiTypeOK
<1>4. ASSUME NEW m \in Message, QueueHandler(m) PROVE FfiTypeOK'
  <2>1. noTransactionHandlerQueue' \in Seq(Message)
    BY <1>a, <1>4, AppendFacts DEF QueueHandler
  <2> QED BY <1>a, <1>c, <1>4, <2>1 DEF QueueHandler, FfiTypeOK, idVars, sqliteVars
<1>5. ASSUME NEW m \in Message, HandleClose(m) PROVE FfiTypeOK'
  <2>1. answer' \in [Callers -> AnswerType]
    BY <1>a, <1>5 DEF HandleClose, FfiTypeOK, AnswerType, NoTransaction
  <2> QED BY <1>a, <1>c, <1>5, <2>1 DEF HandleClose, FfiTypeOK, idVars, queueVars
<1> QED BY <1>1, <1>2, <1>3, <1>4, <1>5, IsolateCases DEF IsolateStep
-----------------------------------------------------------------------------
(* _rawLock.  A step moves one caller; the lemmas are the ways it may.     *)

Locks == LockQueue /\ LockHeld /\ LockWishes

(* Only c moves, and its wish is what it should be after it. *)
OnlyMoves(c) ==
  /\ \A e \in Callers :
       e # c => at'[e] = at[e] /\ wanted'[e] = wanted[e] /\ on'[e] = on[e]
  /\ wanted'[c] \in IF at'[c] = "waiting" THEN {"begin", "rollback"} \cup PlainCalls
                                         ELSE {"none"}

LEMMA OthersHold ==
  ASSUME NEW c \in Callers, OnlyMoves(c)
  PROVE  \A e \in Callers :
           e # c => /\ Holds(e)' <=> Holds(e)
                    /\ InTransaction(e)' <=> InTransaction(e)
                    /\ at'[e] = "waiting" <=> at[e] = "waiting"
  BY DEF OnlyMoves, Holds, InTransaction

(* A holder is first in the queue of its database, so there is one. *)
LEMMA OneHolder ==
  ASSUME LockHeld, NEW c \in Callers, NEW e \in Callers, Holds(c), Holds(e),
         DatabaseOf[c] = DatabaseOf[e]
  PROVE  c = e
  BY DEF LockHeld

LEMMA WishesStep ==
  ASSUME LockWishes, NEW c \in Callers, OnlyMoves(c)
  PROVE  LockWishes'
  BY DEF LockWishes, OnlyMoves

LEMMA LockKept ==
  ASSUME TypeOK, Locks, NEW c \in Callers, OnlyMoves(c), UNCHANGED rawLock,
         at[c] # "waiting", at'[c] # "waiting", Holds(c)' <=> Holds(c)
  PROVE  Locks'
<1>a. \A d \in Databases : \A i \in DOMAIN rawLock[d] : rawLock[d][i] \in Callers
  BY DEF TypeOK
<1>1. LockQueue'
  BY <1>a, OthersHold DEF Locks, LockQueue
<1>2. LockHeld'
  BY OthersHold DEF Locks, LockHeld
<1> QED BY <1>1, <1>2, WishesStep DEF Locks

LEMMA LockGranted ==
  ASSUME TypeOK, Locks, NEW c \in Callers, OnlyMoves(c), UNCHANGED rawLock,
         at[c] = "waiting", Head(rawLock[DatabaseOf[c]]) = c, Holds(c)',
         at'[c] # "waiting"
  PROVE  Locks'
<1> DEFINE d == DatabaseOf[c]
<1>a. \A e \in Databases : \A i \in DOMAIN rawLock[e] : rawLock[e][i] \in Callers
  BY DEF TypeOK
<1>b. d \in Databases /\ rawLock[d] # <<>> /\ 1 \in DOMAIN rawLock[d]
      /\ rawLock[d][1] = c
  BY ConstantsAssumption, TailFacts DEF Locks, LockHeld, TypeOK
<1>1. LockQueue'
  <2> SUFFICES ASSUME NEW e \in Databases, NEW i \in DOMAIN rawLock[e]
               PROVE  \/ at'[rawLock[e][i]] = "waiting"
                      \/ i = 1 /\ Holds(rawLock[e][i])'
    BY DEF Locks, LockQueue
  <2>1. CASE rawLock[e][i] = c
    <3>1. e = d /\ i = 1
      BY <1>b, <2>1 DEF Locks, LockQueue
    <3> QED BY <2>1, <3>1
  <2>2. CASE rawLock[e][i] # c
    BY <1>a, <2>2, OthersHold DEF Locks, LockQueue
  <2> QED BY <2>1, <2>2
<1>2. LockHeld'
  BY <1>b, OthersHold DEF Locks, LockHeld
<1> QED BY <1>1, <1>2, WishesStep DEF Locks

(* c, idle, is put at the end of the queue. *)
LEMMA LockAppended ==
  ASSUME TypeOK, Locks, NEW c \in Callers, OnlyMoves(c), at[c] = "idle",
         rawLock' = [rawLock EXCEPT ![DatabaseOf[c]] = Append(@, c)],
         \/ at'[c] = "waiting" /\ ~Holds(c)'
         \/ at'[c] # "waiting" /\ Holds(c)' /\ rawLock[DatabaseOf[c]] = <<>>
  PROVE  Locks'
<1> DEFINE d == DatabaseOf[c]
<1>a. \A e \in Databases : \A i \in DOMAIN rawLock[e] : rawLock[e][i] \in Callers
  BY DEF TypeOK
<1>b. d \in Databases /\ rawLock[d] \in Seq(Callers)
  BY ConstantsAssumption DEF TypeOK
<1>c. /\ rawLock'[d] = Append(rawLock[d], c)
      /\ \A e \in Databases : e # d => rawLock'[e] = rawLock[e]
  BY <1>b DEF TypeOK
<1>d. /\ DOMAIN rawLock[d] = 1..Len(rawLock[d]) /\ Len(rawLock[d]) \in Nat
      /\ DOMAIN rawLock'[d] = 1..(Len(rawLock[d]) + 1)
      /\ rawLock'[d][Len(rawLock[d]) + 1] = c
      /\ \A i \in DOMAIN rawLock[d] : rawLock'[d][i] = rawLock[d][i]
      /\ rawLock'[d] # <<>>
      /\ Head(rawLock'[d]) = IF rawLock[d] = <<>> THEN c ELSE Head(rawLock[d])
  BY <1>b, <1>c, AppendFacts
<1>e. \A e \in Databases : \A i \in DOMAIN rawLock[e] : rawLock[e][i] # c
  BY DEF Locks, LockQueue, Holds, InTransaction
<1>f. rawLock[d] = <<>> => Len(rawLock[d]) = 0
  OBVIOUS
<1>1. LockQueue'
  <2>1. ASSUME NEW e \in Databases, e # d
        PROVE  /\ \A i \in DOMAIN rawLock'[e] :
                    /\ DatabaseOf[rawLock'[e][i]] = e
                    /\ \/ at'[rawLock'[e][i]] = "waiting"
                       \/ i = 1 /\ Holds(rawLock[e][i])'
               /\ \A i, j \in DOMAIN rawLock'[e] :
                    rawLock'[e][i] = rawLock'[e][j] => i = j
    BY <1>a, <1>c, <1>e, <2>1, OthersHold DEF Locks, LockQueue
  <2>2. ASSUME NEW i \in DOMAIN rawLock'[d]
        PROVE  /\ DatabaseOf[rawLock'[d][i]] = d
               /\ at'[rawLock'[d][i]] = "waiting" \/ (i = 1 /\ Holds(rawLock[d][i])')
    <3>1. CASE i \in DOMAIN rawLock[d]
      BY <1>a, <1>b, <1>d, <1>e, <3>1, OthersHold DEF Locks, LockQueue
    <3>2. CASE i = Len(rawLock[d]) + 1
      BY <1>d, <1>f, <3>2
    <3> QED BY <1>d, <3>1, <3>2
  <2>3. \A i, j \in DOMAIN rawLock'[d] : rawLock'[d][i] = rawLock'[d][j] => i = j
    BY <1>b, <1>d, <1>e DEF Locks, LockQueue
  <2> QED BY <2>1, <2>2, <2>3 DEF LockQueue
<1>2. LockHeld'
  <2> SUFFICES ASSUME NEW e \in Callers
               PROVE  /\ Holds(e)' => /\ rawLock'[DatabaseOf[e]] # <<>>
                                      /\ Head(rawLock'[DatabaseOf[e]]) = e
                      /\ at'[e] = "waiting" =>
                           \E i \in DOMAIN rawLock'[DatabaseOf[e]] :
                             rawLock'[DatabaseOf[e]][i] = e
    BY DEF LockHeld
  <2>1. CASE e = c
    BY <1>d, <2>1
  <2>2. CASE e # c
    <3>1. DatabaseOf[e] \in Databases
      BY ConstantsAssumption
    <3>2. CASE DatabaseOf[e] # d
      BY <1>c, <2>2, <3>1, <3>2, OthersHold DEF Locks, LockHeld
    <3>3. CASE DatabaseOf[e] = d
      BY <1>d, <2>2, <3>3, OthersHold DEF Locks, LockHeld
    <3> QED BY <3>2, <3>3
  <2> QED BY <2>1, <2>2
<1> QED BY <1>1, <1>2, WishesStep DEF Locks

(* The holder leaves the lock to the next of the queue. *)
LEMMA LockReleased ==
  ASSUME TypeOK, Locks, NEW c \in Callers, OnlyMoves(c), Holds(c),
         at[c] # "waiting", ~Holds(c)', at'[c] # "waiting",
         Release(DatabaseOf[c])
  PROVE  Locks'
<1> DEFINE d == DatabaseOf[c]
<1>a. \A e \in Databases : \A i \in DOMAIN rawLock[e] : rawLock[e][i] \in Callers
  BY DEF TypeOK
<1>b. d \in Databases /\ rawLock[d] \in Seq(Callers) /\ rawLock[d] # <<>>
      /\ Head(rawLock[d]) = c
  BY ConstantsAssumption DEF TypeOK, Locks, LockHeld
<1>c. /\ rawLock'[d] = Tail(rawLock[d])
      /\ \A e \in Databases : e # d => rawLock'[e] = rawLock[e]
  BY <1>b DEF TypeOK, Release
<1>d. /\ DOMAIN rawLock[d] = 1..Len(rawLock[d]) /\ Len(rawLock[d]) \in Nat \ {0}
      /\ DOMAIN rawLock'[d] = 1..(Len(rawLock[d]) - 1)
      /\ \A i \in DOMAIN rawLock'[d] : rawLock'[d][i] = rawLock[d][i + 1]
      /\ rawLock[d][1] = c
  BY <1>b, <1>c, TailFacts
<1>e. \A i \in DOMAIN rawLock'[d] : /\ i + 1 \in DOMAIN rawLock[d]
                                    /\ rawLock[d][i + 1] # c /\ i + 1 # 1
  BY <1>b, <1>d DEF Locks, LockQueue
<1>f. \A e \in Databases : e # d => \A i \in DOMAIN rawLock[e] : rawLock[e][i] # c
  BY DEF Locks, LockQueue
<1>1. LockQueue'
  <2>1. ASSUME NEW e \in Databases, e # d
        PROVE  /\ \A i \in DOMAIN rawLock'[e] :
                    /\ DatabaseOf[rawLock'[e][i]] = e
                    /\ \/ at'[rawLock'[e][i]] = "waiting"
                       \/ i = 1 /\ Holds(rawLock[e][i])'
               /\ \A i, j \in DOMAIN rawLock'[e] :
                    rawLock'[e][i] = rawLock'[e][j] => i = j
    BY <1>a, <1>c, <1>f, <2>1, OthersHold DEF Locks, LockQueue
  <2>2. ASSUME NEW i \in DOMAIN rawLock'[d]
        PROVE  /\ DatabaseOf[rawLock'[d][i]] = d
               /\ at'[rawLock'[d][i]] = "waiting"
    BY <1>a, <1>b, <1>d, <1>e, OthersHold DEF Locks, LockQueue
  <2>3. \A i, j \in DOMAIN rawLock'[d] : rawLock'[d][i] = rawLock'[d][j] => i = j
    BY <1>b, <1>d, <1>e DEF Locks, LockQueue
  <2> QED BY <2>1, <2>2, <2>3 DEF LockQueue
<1>2. LockHeld'
  <2> SUFFICES ASSUME NEW e \in Callers
               PROVE  /\ Holds(e)' => /\ rawLock'[DatabaseOf[e]] # <<>>
                                      /\ Head(rawLock'[DatabaseOf[e]]) = e
                      /\ at'[e] = "waiting" =>
                           \E i \in DOMAIN rawLock'[DatabaseOf[e]] :
                             rawLock'[DatabaseOf[e]][i] = e
    BY DEF LockHeld
  <2>1. CASE e = c
    BY <2>1
  <2>2. CASE e # c
    <3>1. DatabaseOf[e] \in Databases
      BY ConstantsAssumption
    <3>2. CASE DatabaseOf[e] # d
      BY <1>c, <2>2, <3>1, <3>2, OthersHold DEF Locks, LockHeld
    <3>3. CASE DatabaseOf[e] = d
      <4>1. ~Holds(e)'
        BY <1>b, <2>2, <3>3, OthersHold DEF Locks, LockHeld
      <4>2. ASSUME at'[e] = "waiting"
            PROVE  \E i \in DOMAIN rawLock'[d] : rawLock'[d][i] = e
        <5>1. PICK j \in DOMAIN rawLock[d] : rawLock[d][j] = e
          BY <2>2, <3>3, <4>2, OthersHold DEF Locks, LockHeld
        <5>2. j # 1 /\ j - 1 \in DOMAIN rawLock'[d] /\ (j - 1) + 1 = j
          BY <1>d, <2>2, <5>1
        <5> QED BY <1>d, <5>1, <5>2
      <4> QED BY <3>3, <4>1, <4>2
    <3> QED BY <3>2, <3>3
  <2> QED BY <2>1, <2>2
<1> QED BY <1>1, <1>2, WishesStep DEF Locks
-----------------------------------------------------------------------------
(* The lock invariant holds. *)

(* A caller that enters the lock holds it. *)
LEMMA EnterMoves ==
  ASSUME TypeOK, NEW c \in Callers, NEW what, Enter(c, what), UNCHANGED on
  PROVE  /\ at'[c] # "waiting" /\ at'[c] # "txnCall" /\ Holds(c)'
         /\ ~InTransaction(c)'
         /\ \A e \in Callers : e # c => at'[e] = at[e]
<1>a. Goto(c, EntryPlace(what))
  BY EnterCases
<1>1. /\ at'[c] = EntryPlace(what)
      /\ \A e \in Callers : e # c => at'[e] = at[e]
  BY <1>a DEF Goto, TypeOK
<1> QED BY <1>1 DEF EntryPlace, Holds, InTransaction

LEMMA SynchronizedLocks ==
  ASSUME TypeOK, Locks, NEW c \in Callers, at[c] = "idle", UNCHANGED on,
         NEW what \in {"begin", "rollback"} \cup PlainCalls, Synchronized(c, what)
  PROVE  Locks' /\ at'[c] # "txnCall" /\ ~InTransaction(c)'
         /\ \A e \in Callers : e # c => at'[e] = at[e]
<1>a. rawLock' = [rawLock EXCEPT ![DatabaseOf[c]] = Append(@, c)]
  BY SynchronizedCases
<1>b. wanted[c] = "none"
  BY DEF Locks, LockWishes
<1>1. CASE rawLock[DatabaseOf[c]] = <<>> /\ Enter(c, what) /\ UNCHANGED wanted
  <2>1. OnlyMoves(c)
    BY <1>1, <1>b, EnterMoves DEF OnlyMoves
  <2> QED BY <1>1, <1>a, <2>1, EnterMoves, LockAppended
<1>2. CASE Goto(c, "waiting") /\ wanted' = [wanted EXCEPT ![c] = what]
  <2>1. /\ at'[c] = "waiting" /\ wanted'[c] = what
        /\ \A e \in Callers : e # c => at'[e] = at[e] /\ wanted'[e] = wanted[e]
    BY <1>2 DEF Goto, TypeOK
  <2>2. OnlyMoves(c)
    BY <2>1 DEF OnlyMoves
  <2>3. ~Holds(c)' /\ ~InTransaction(c)'
    BY <2>1 DEF Holds, InTransaction
  <2> QED BY <1>a, <2>1, <2>2, <2>3, LockAppended
<1> QED BY <1>1, <1>2, SynchronizedCases

(* Nobody is in a call on the transaction of one that is not in it. *)
LEMMA NoCallsOn ==
  ASSUME CallsOn, NEW o \in Callers, ~InTransaction(o)
  PROVE  \A e \in Callers : at[e] = "txnCall" => on[e].owner # o
  BY DEF CallsOn

(* The calls in flight are those there were, if c does not make one, and   *)
(* does not leave its transaction while one is.                            *)
LEMMA CallsKept ==
  ASSUME TypeOK, CallsOn, Alone, NEW c \in Callers, at'[c] # "txnCall",
         \A e \in Callers : e # c => at'[e] = at[e] /\ on'[e] = on[e],
         \A e \in Callers : e # c /\ at[e] = "txnCall" =>
           /\ on[e].owner = c => InTransaction(c)'
           /\ transaction'[on[e].owner].id = transaction[on[e].owner].id
  PROVE  CallsOn' /\ Alone'
<1>1. ASSUME NEW e \in Callers, at'[e] = "txnCall"
      PROVE  /\ InTransaction(on[e].owner)'
             /\ DatabaseOf[on'[e].owner] = DatabaseOf[e]
             /\ on'[e].id = transaction'[on'[e].owner].id
  <2>1. e # c /\ at[e] = "txnCall" /\ on'[e] = on[e]
    BY <1>1
  <2>2. PICK o \in Callers : o = on[e].owner
    BY DEF TypeOK
  <2>3. InTransaction(o)'
    <3>1. InTransaction(o)
      BY <2>1, <2>2 DEF CallsOn
    <3>2. CASE o = c
      BY <2>1, <2>2, <3>2
    <3>3. CASE o # c
      BY <3>1, <3>3 DEF InTransaction
    <3> QED BY <3>2, <3>3
  <2>4. transaction'[o].id = transaction[o].id
    BY <2>1, <2>2
  <2> QED BY <2>1, <2>2, <2>3, <2>4 DEF CallsOn
<1>2. CallsOn'
  BY <1>1 DEF CallsOn
<1>3. \A o, e \in Callers : e \in InFlightOn(o)' => e \in InFlightOn(o)
  BY DEF InFlightOn
<1>4. Alone'
  BY <1>3 DEF Alone
<1> QED BY <1>2, <1>4

(* The start of a call on o's transaction. *)
LEMMA CallMade ==
  ASSUME LockInvariant, NEW c \in Callers, NEW o \in Callers,
         CallOnTransaction(c, o)
  PROVE  Locks' /\ CallsOn' /\ Alone'
<1> USE DEF LockInvariant
<1>1. /\ at'[c] = "txnCall" /\ on'[c] = [owner |-> o, id |-> transaction[o].id]
      /\ \A e \in Callers : e # c => at'[e] = at[e] /\ on'[e] = on[e]
      /\ UNCHANGED <<wanted, rawLock, transaction>>
  BY DEF CallOnTransaction, Goto, TypeOK
<1>2. InTransaction(o) /\ DatabaseOf[c] = DatabaseOf[o]
  <2>1. ASSUME NEW e \in InFlightOn(o), e = o PROVE InTransaction(o)
    BY <2>1 DEF InFlightOn, InTransaction
  <2> QED BY <2>1 DEF CallOnTransaction, InCallback, InTransaction
<1>3. \A e \in Callers : InTransaction(e)' <=> InTransaction(e)
  <2>1. c = o => at[c] = "callback"
    BY DEF CallOnTransaction
  <2>2. c # o => at[c] = "idle"
    BY DEF CallOnTransaction
  <2> QED BY <1>1, <2>1, <2>2 DEF InTransaction
<1>4. Locks'
  <2>1. at[c] \in {"idle", "callback"}
    BY DEF CallOnTransaction
  <2>2. wanted[c] = "none"
    BY <2>1 DEF LockWishes
  <2>3. OnlyMoves(c)
    BY <1>1, <2>2 DEF OnlyMoves
  <2>4. Holds(c)' <=> Holds(c)
    BY <1>1, <1>3, <2>1 DEF Holds
  <2> QED BY <1>1, <2>1, <2>3, <2>4, LockKept DEF Locks
<1>5. CallsOn'
  <2> SUFFICES ASSUME NEW e \in Callers, at'[e] = "txnCall"
               PROVE  /\ InTransaction(on[e].owner)'
                      /\ DatabaseOf[on'[e].owner] = DatabaseOf[e]
                      /\ on'[e].id = transaction'[on'[e].owner].id
    BY DEF CallsOn
  <2>1. CASE e = c
    BY <1>1, <1>2, <1>3, <2>1
  <2>2. CASE e # c
    <3>1. PICK p \in Callers : p = on[e].owner
      BY DEF TypeOK
    <3>2. /\ InTransaction(p) /\ DatabaseOf[p] = DatabaseOf[e]
          /\ on[e].id = transaction[p].id
      BY <1>1, <2>2, <3>1 DEF CallsOn
    <3>3. InTransaction(p)'
      BY <1>3, <3>2
    <3> QED BY <1>1, <2>2, <3>1, <3>2, <3>3
  <2> QED BY <2>1, <2>2
<1>6. Alone'
  <2>1. ASSUME ~Overlap PROVE InFlightOn(o) = {}
    BY <2>1 DEF CallOnTransaction
  <2>2. \A p, e \in Callers :
          e \in InFlightOn(p)' => e \in InFlightOn(p) \/ (e = c /\ p = o)
    BY <1>1 DEF InFlightOn
  <2> QED BY <2>1, <2>2 DEF Alone
<1> QED BY <1>4, <1>5, <1>6

LEMMA CallerLocks ==
  ASSUME LockInvariant, NEW c \in Callers, Caller(c)
  PROVE  Locks' /\ CallsOn' /\ Alone'
<1> USE DEF LockInvariant
<1>a. at[c] # "waiting" => wanted[c] = "none"
  BY DEF LockWishes
<1>b. Locks
  BY DEF Locks
<1> HIDE DEF LockInvariant
<1>c. TypeOK /\ CallsOn /\ Alone
  BY DEF LockInvariant
<1>1. CASE CallDatabase(c)
  <2>1. PICK what \in {"begin", "rollback"} \cup PlainCalls :
               Synchronized(c, what)
    BY <1>1 DEF CallDatabase
  <2>2. at[c] = "idle" /\ UNCHANGED <<transaction, on>>
    BY <1>1 DEF CallDatabase
  <2>3. Locks' /\ at'[c] # "txnCall"
        /\ \A e \in Callers : e # c => at'[e] = at[e]
    BY <1>b, <1>c, <2>1, <2>2, SynchronizedLocks
  <2>4. ~InTransaction(c)
    BY <2>2 DEF InTransaction
  <2> QED BY <1>c, <2>2, <2>3, <2>4, NoCallsOn, CallsKept
<1>2. CASE \E o \in Callers : CallOnTransaction(c, o)
  BY <1>2, CallMade
<1>3. CASE FinishCallback(c)
  <2>1. /\ at[c] = "callback" /\ at'[c] = "finished"
        /\ \A e \in Callers : e # c => at'[e] = at[e]
        /\ UNCHANGED <<rawLock, wanted, transaction, on>>
    BY <1>3, <1>c DEF FinishCallback, Goto, TypeOK
  <2>2. OnlyMoves(c) /\ InTransaction(c)' /\ Holds(c) /\ Holds(c)'
    BY <1>a, <2>1 DEF OnlyMoves, InTransaction, Holds
  <2>3. Locks'
    BY <1>b, <1>c, <2>1, <2>2, LockKept
  <2> QED BY <1>c, <2>1, <2>2, <2>3, CallsKept
<1>4. CASE Close(c)
  <2>1. at[c] = "idle" /\ UNCHANGED <<transaction, on>>
    BY <1>4 DEF Close
  <2>2. ~InTransaction(c) /\ ~Holds(c)
    BY <2>1 DEF InTransaction, Holds
  <2>3. CASE Synchronized(c, "rollback")
    <3>1. Locks' /\ at'[c] # "txnCall"
          /\ \A e \in Callers : e # c => at'[e] = at[e]
      BY <1>b, <1>c, <2>1, <2>3, SynchronizedLocks
    <3> QED BY <1>c, <2>1, <2>2, <3>1, NoCallsOn, CallsKept
  <2>4. CASE SendClose(c) /\ UNCHANGED <<answer, inTransaction, rawLock, wanted, begins>>
    <3>1. at'[c] = "close" /\ \A e \in Callers : e # c => at'[e] = at[e]
      BY <1>c, <2>4 DEF SendClose, Goto, TypeOK
    <3>2. OnlyMoves(c) /\ ~Holds(c)'
      BY <1>a, <2>1, <2>4, <3>1 DEF OnlyMoves, Holds, InTransaction
    <3>3. Locks'
      BY <1>b, <1>c, <2>1, <2>2, <2>4, <3>1, <3>2, LockKept
    <3> QED BY <1>c, <2>1, <2>2, <3>1, <3>3, NoCallsOn, CallsKept
  <2> QED BY <1>4, <2>3, <2>4 DEF Close
<1>5. CASE Granted(c)
  <2>1. at[c] = "waiting" /\ Enter(c, wanted[c])
        /\ Head(rawLock[DatabaseOf[c]]) = c
        /\ wanted' = [wanted EXCEPT ![c] = "none"]
        /\ UNCHANGED <<rawLock, transaction, on>>
    BY <1>5 DEF Granted
  <2>2. /\ at'[c] # "waiting" /\ at'[c] # "txnCall" /\ Holds(c)'
        /\ \A e \in Callers : e # c => at'[e] = at[e]
    BY <1>c, <2>1, EnterMoves
  <2>3. OnlyMoves(c)
    BY <1>c, <2>1, <2>2 DEF OnlyMoves, TypeOK
  <2>4. Locks'
    BY <1>b, <1>c, <2>1, <2>2, <2>3, LockGranted
  <2>5. ~InTransaction(c)
    BY <2>1 DEF InTransaction
  <2> QED BY <1>c, <2>1, <2>2, <2>4, <2>5, NoCallsOn, CallsKept
<1>6. ASSUME at[c] \in {"statement", "begin", "end", "forceRollback"},
             at'[c] \in {"idle", "closing"}, Release(DatabaseOf[c]),
             \A e \in Callers : e # c => at'[e] = at[e],
             UNCHANGED <<wanted, on>>,
             \A e \in Callers : e # c => transaction'[e] = transaction[e]
      PROVE  Locks' /\ CallsOn' /\ Alone'
  <2>1. OnlyMoves(c) /\ Holds(c) /\ ~Holds(c)' /\ ~InTransaction(c)
    BY <1>6, <1>a DEF OnlyMoves, Holds, InTransaction
  <2>2. Locks'
    BY <1>b, <1>c, <1>6, <2>1, LockReleased
  <2>3. \A e \in Callers : at[e] = "txnCall" => on[e].owner \in Callers \ {c}
    BY <1>c, <2>1, NoCallsOn DEF TypeOK
  <2> QED BY <1>6, <1>c, <2>2, <2>3, CallsKept
<1>7. CASE CallAnswered(c) \/ Ended(c) \/ RolledBack(c)
  <2>1. /\ at[c] \in {"statement", "end", "forceRollback"}
        /\ at'[c] \in {"idle", "closing"} /\ Release(DatabaseOf[c])
        /\ \A e \in Callers : e # c => at'[e] = at[e]
        /\ UNCHANGED <<wanted, on>>
        /\ \A e \in Callers : e # c => transaction'[e] = transaction[e]
    BY <1>7, <1>c DEF CallAnswered, Ended, RolledBack, Goto, TypeOK
  <2> QED BY <1>6, <2>1
<1>8. CASE Began(c)
  <2>1. at[c] = "begin" /\ UNCHANGED <<wanted, on>>
    BY <1>8 DEF Began
  <2>2. CASE answer[c].ok
    <3>1. /\ at'[c] = "callback" /\ UNCHANGED rawLock
          /\ \A e \in Callers : e # c => /\ at'[e] = at[e]
                                         /\ transaction'[e] = transaction[e]
      BY <1>8, <1>c, <2>2 DEF Began, Goto, TypeOK
    <3>2. OnlyMoves(c) /\ Holds(c) /\ Holds(c)' /\ ~InTransaction(c)
      BY <1>a, <2>1, <3>1 DEF OnlyMoves, Holds, InTransaction
    <3>3. Locks'
      BY <1>b, <1>c, <2>1, <3>1, <3>2, LockKept
    <3>4. \A e \in Callers : at[e] = "txnCall" => on[e].owner \in Callers \ {c}
      BY <1>c, <3>2, NoCallsOn DEF TypeOK
    <3> QED BY <1>c, <2>1, <3>1, <3>3, <3>4, CallsKept
  <2>3. CASE ~answer[c].ok
    <3>1. /\ at'[c] = "idle" /\ Release(DatabaseOf[c]) /\ UNCHANGED transaction
          /\ \A e \in Callers : e # c => at'[e] = at[e]
      BY <1>8, <1>c, <2>3 DEF Began, Goto, TypeOK
    <3> QED BY <1>6, <2>1, <3>1
  <2> QED BY <2>2, <2>3
<1>9. CASE TransactionCallAnswered(c)
  <2>1. /\ at[c] = "txnCall" /\ UNCHANGED <<rawLock, wanted>>
        /\ at'[c] = IF on[c].owner = c THEN "callback" ELSE "idle"
        /\ on'[c] = OnNone(c)
        /\ \A e \in Callers : e # c => at'[e] = at[e] /\ on'[e] = on[e]
    BY <1>9, <1>c DEF TransactionCallAnswered, Goto, TypeOK
  <2>2. \A e \in Callers : transaction'[e].id = transaction[e].id
    BY <1>9, <1>c DEF TransactionCallAnswered, TypeOK
  <2>3. /\ OnlyMoves(c)
        /\ Holds(c)' <=> Holds(c)
        /\ InTransaction(c)' <=> InTransaction(c)
    BY <1>a, <2>1 DEF OnlyMoves, Holds, InTransaction
  <2>4. Locks'
    BY <1>b, <1>c, <2>1, <2>3, LockKept
  <2>5. \A e \in Callers : at[e] = "txnCall" =>
          InTransaction(on[e].owner) /\ on[e].owner \in Callers
    BY <1>c DEF CallsOn, TypeOK
  <2> QED BY <1>c, <2>1, <2>2, <2>3, <2>4, <2>5, CallsKept
<1>10. CASE EndTransaction(c)
  <2>1. /\ at[c] = "finished" /\ InFlightOn(c) = {}
        /\ at'[c] \in {"idle", "end"}
        /\ \A e \in Callers : e # c => /\ at'[e] = at[e]
                                       /\ transaction'[e] = transaction[e]
        /\ UNCHANGED <<wanted, on>>
    BY <1>10, <1>c DEF EndTransaction, Goto, TypeOK
  <2>2. OnlyMoves(c) /\ Holds(c)
    BY <1>a, <2>1 DEF OnlyMoves, Holds, InTransaction
  <2>3. \A e \in Callers : at[e] = "txnCall" => on[e].owner \in Callers \ {c}
    BY <1>c, <2>1 DEF InFlightOn, TypeOK
  <2>4. CASE transaction[c].closed
    <3>1. at'[c] = "idle" /\ Release(DatabaseOf[c])
      BY <1>10, <1>c, <2>4 DEF EndTransaction, Goto, TypeOK
    <3>2. ~Holds(c)'
      BY <3>1 DEF Holds, InTransaction
    <3>3. Locks'
      BY <1>b, <1>c, <2>1, <2>2, <3>1, <3>2, LockReleased
    <3> QED BY <1>c, <2>1, <2>3, <3>3, CallsKept
  <2>5. CASE ~transaction[c].closed
    <3>1. at'[c] = "end" /\ UNCHANGED rawLock
      BY <1>10, <1>c, <2>5 DEF EndTransaction, Goto, TypeOK
    <3>2. Holds(c)'
      BY <3>1 DEF Holds
    <3>3. Locks'
      BY <1>b, <1>c, <2>1, <2>2, <3>1, <3>2, LockKept
    <3> QED BY <1>c, <2>1, <2>3, <3>3, CallsKept
  <2> QED BY <2>4, <2>5
<1>11. CASE InvokeCloseDatabase(c) \/ Closed(c)
  <2>1. /\ at[c] \in {"closing", "close"} /\ at'[c] \in {"close", "idle"}
        /\ \A e \in Callers : e # c => at'[e] = at[e]
        /\ UNCHANGED <<rawLock, wanted, transaction, on>>
    BY <1>11, <1>c DEF InvokeCloseDatabase, Closed, SendClose, Goto, TypeOK
  <2>2. OnlyMoves(c) /\ ~Holds(c) /\ ~Holds(c)' /\ ~InTransaction(c)
    BY <1>a, <2>1 DEF OnlyMoves, Holds, InTransaction
  <2>3. Locks'
    BY <1>b, <1>c, <2>1, <2>2, LockKept
  <2> QED BY <1>c, <2>1, <2>2, <2>3, NoCallsOn, CallsKept
<1> QED BY <1>1, <1>2, <1>3, <1>4, <1>5, <1>7, <1>8, <1>9, <1>10, <1>11
        DEF Caller, Continue

LEMMA LockStep ==
  LockInvariant /\ [Next]_vars => LockInvariant'
<1> SUFFICES ASSUME LockInvariant, [Next]_vars PROVE LockInvariant'
  OBVIOUS
<1>1. ASSUME NEW c \in Callers, Caller(c) PROVE LockInvariant'
  <2>1. QueueRuns'
    BY <1>1, CallerFrame DEF LockInvariant, QueueRuns, queueVars, idVars
  <2> QED BY <1>1, <2>1, CallerType, CallerLocks DEF LockInvariant, Locks
<1>2. CASE IsolateStep
  <2>1. UNCHANGED dartVars
    BY <1>2 DEF IsolateStep
  <2>2. LockQueue' /\ LockHeld' /\ LockWishes' /\ CallsOn' /\ Alone'
    BY <2>1 DEF LockInvariant, LockQueue, LockHeld, LockWishes, CallsOn, Alone,
                Holds, InTransaction, InFlightOn, dartVars
  <2>3. QueueRuns'
    <3>1. CASE RunQueuedHandler
      BY <3>1 DEF RunQueuedHandler, QueueRuns
    <3>2. ASSUME NEW m \in Message,
                 HandleOutside(m) \/ QueueHandler(m) \/ HandleClose(m)
          PROVE  QueueRuns'
      BY <3>2 DEF HandleOutside, QueueHandler, HandleClose, NextMessage,
                  QueueRuns, queueVars
    <3>3. ASSUME NEW m \in Message, HandleInTransaction(m) PROVE QueueRuns'
      BY <3>3 DEF HandleInTransaction, QueueRuns
    <3> QED BY <1>2, <3>1, <3>2, <3>3, IsolateCases DEF IsolateStep
  <2> QED BY <1>2, <2>2, <2>3, IsolateType DEF LockInvariant
<1>3. CASE UNCHANGED vars
  BY <1>3 DEF LockInvariant, TypeOK, FfiTypeOK, LockQueue, LockHeld, LockWishes,
              CallsOn, Alone, Holds, InTransaction, InFlightOn, QueueRuns,
              vars, dartVars, ffiVars, queueVars, idVars, sqliteVars
<1> QED BY <1>1, <1>2, <1>3 DEF Next

LEMMA LockHolds == Spec => []LockInvariant
  BY InitLock, LockStep, PTL DEF Spec

(* The variables always have their types: a message is only taken where    *)
(* there is one, and the lock released where it is held.                   *)
THEOREM TypeCorrect == Spec => []TypeOK
<1>1. LockInvariant => TypeOK
  BY DEF LockInvariant
<1> QED BY <1>1, LockHolds, PTL

(* A handler parked in the isolate is never forgotten, whatever SQLite     *)
(* does and whoever calls: see NoLostWakeUp.                               *)
THEOREM NoHandlerForgotten == Spec => []NoLostWakeUp
<1>1. Init => NoLostWakeUp
  BY DEF Init, FfiInit, NoLostWakeUp
<1>2. LockInvariant /\ NoLostWakeUp /\ [Next]_vars => NoLostWakeUp'
  <2> SUFFICES ASSUME LockInvariant, NoLostWakeUp, [Next]_vars
               PROVE  NoLostWakeUp'
    OBVIOUS
  <2>1. ASSUME NEW c \in Callers, Caller(c) PROVE NoLostWakeUp'
    BY <2>1, CallerFrame DEF NoLostWakeUp, queueVars, idVars
  <2>2. CASE RunQueuedHandler
    BY <2>2 DEF RunQueuedHandler, NoLostWakeUp
  <2>3. ASSUME NEW m \in Message, HandleOutside(m) PROVE NoLostWakeUp'
    BY <2>3 DEF HandleOutside, NextMessage, NoLostWakeUp, queueVars
  <2>4. ASSUME NEW m \in Message, HandleInTransaction(m) PROVE NoLostWakeUp'
    BY <2>4 DEF HandleInTransaction, NoLostWakeUp
  <2>5. ASSUME NEW m \in Message, QueueHandler(m) PROVE NoLostWakeUp'
    BY <2>5 DEF QueueHandler, NoLostWakeUp, idVars
  <2>6. ASSUME NEW m \in Message, HandleClose(m) PROVE NoLostWakeUp'
    BY <2>6 DEF HandleClose, NoLostWakeUp, queueVars, idVars
  <2>7. CASE UNCHANGED vars
    BY <2>7 DEF vars, ffiVars, queueVars, idVars, NoLostWakeUp
  <2> QED BY <2>1, <2>2, <2>3, <2>4, <2>5, <2>6, <2>7, IsolateCases
          DEF Next, IsolateStep
<1> QED BY <1>1, <1>2, LockHolds, PTL DEF Spec
-----------------------------------------------------------------------------
(* The messages on their way, and who sent them.                           *)

(* Where a caller waits for no answer. *)
Quiet == {"idle", "waiting", "callback", "finished", "closing"}

(* m is the one message the call of its sender waits for an answer to. *)
Fits(m) ==
  /\ answer[m.from] = NoAnswer
  /\ \/ /\ at[m.from] = "statement" /\ m.kind \in Statements
        /\ m.tid = NoTransaction
     \/ at[m.from] = "begin" /\ m.kind = "begin" /\ m.tid = NoTransaction
     \/ /\ at[m.from] = "txnCall" /\ m.kind \in TransactionCalls
        /\ m.tid = on[m.from].id
     \/ /\ at[m.from] = "end" /\ m.kind \in {"commit", "rollback"}
        /\ m.tid = transaction[m.from].id
     \/ at[m.from] = "forceRollback" /\ m.kind = "rollback" /\ m.tid = ForceId
     \/ at[m.from] = "close" /\ m.kind = "close"

(* One message of each caller, in the port or in the queue. *)
OneMessage ==
  LET q == noTransactionHandlerQueue IN
  /\ \A i, j \in DOMAIN port : port[i].from = port[j].from => i = j
  /\ \A i, j \in DOMAIN q : q[i].from = q[j].from => i = j
  /\ \A i \in DOMAIN port, j \in DOMAIN q : port[i].from # q[j].from

Messages ==
  /\ \A i \in DOMAIN port : Fits(port[i])
  /\ \A i \in DOMAIN noTransactionHandlerQueue :
       Fits(noTransactionHandlerQueue[i])
  /\ OneMessage
  /\ \A c \in Callers : at[c] \in Quiet => answer[c] = NoAnswer

NothingSent(c) ==
  /\ \A i \in DOMAIN port : port[i].from # c
  /\ \A i \in DOMAIN noTransactionHandlerQueue :
       noTransactionHandlerQueue[i].from # c

LEMMA SentType ==
  ASSUME TypeOK
  PROVE  /\ \A i \in DOMAIN port : port[i] \in Message
         /\ \A i \in DOMAIN noTransactionHandlerQueue :
              noTransactionHandlerQueue[i] \in Message
  BY DEF TypeOK, FfiTypeOK

(* The place of the sender says what is sent. *)
LEMMA FitsKind ==
  ASSUME NEW m \in Message, Fits(m)
  PROVE  /\ at[m.from] \notin Quiet
         /\ m.kind = "begin" <=> at[m.from] = "begin"
         /\ m.kind = "begin" => m.tid = NoTransaction
         /\ m.kind = "close" <=> at[m.from] = "close"
         /\ m.kind = "commit" => at[m.from] = "end"
         /\ m.kind = "rollback" => at[m.from] \in {"end", "forceRollback"}
         /\ m.kind \in Statements => at[m.from] \in {"statement", "txnCall"}
  BY ConstantsAssumption DEF Fits, Quiet, Statements

LEMMA UnsentWhere ==
  ASSUME TypeOK, Messages, NEW c \in Callers,
         at[c] \in Quiet \/ answer[c] # NoAnswer
  PROVE  NothingSent(c)
  BY SentType, FitsKind DEF Messages, NothingSent, Fits

(* Only the state of c changes, as far as messages can tell. *)
OnlySends(c) ==
  \A e \in Callers :
    e # c => /\ answer'[e] = answer[e] /\ at'[e] = at[e] /\ on'[e] = on[e]
             /\ transaction'[e].id = transaction[e].id

LEMMA FitsKept ==
  ASSUME NEW m \in Message, NEW c \in Callers, m.from # c, OnlySends(c), Fits(m)
  PROVE  Fits(m)'
<1>1. m.from \in Callers
  BY DEF Message
<1> QED BY <1>1 DEF Fits, OnlySends

(* A caller that had sent nothing sends nothing... *)
LEMMA MessagesUnsent ==
  ASSUME TypeOK, Messages, NEW c \in Callers, NothingSent(c), OnlySends(c),
         UNCHANGED <<port, noTransactionHandlerQueue>>,
         at'[c] \in Quiet => answer'[c] = NoAnswer
  PROVE  Messages'
<1>1. ASSUME NEW i \in DOMAIN port PROVE Fits(port[i])'
  <2>1. PICK m \in Message : m = port[i]
    BY SentType
  <2>2. Fits(m)'
    BY <2>1, FitsKept DEF Messages, NothingSent
  <2> QED BY <2>1, <2>2
<1>2. ASSUME NEW i \in DOMAIN noTransactionHandlerQueue
      PROVE  Fits(noTransactionHandlerQueue[i])'
  <2>1. PICK m \in Message : m = noTransactionHandlerQueue[i]
    BY SentType
  <2>2. Fits(m)'
    BY <2>1, FitsKept DEF Messages, NothingSent
  <2> QED BY <2>1, <2>2
<1>3. OneMessage'
  BY DEF Messages, OneMessage
<1>4. \A e \in Callers : at'[e] \in Quiet => answer'[e] = NoAnswer
  BY DEF Messages, OnlySends
<1> QED BY <1>1, <1>2, <1>3, <1>4 DEF Messages

(* ... or the message its new place asks for. *)
LEMMA MessagesSent ==
  ASSUME TypeOK, Messages, NEW c \in Callers, NothingSent(c), OnlySends(c),
         NEW n \in Message, n.from = c, Fits(n)',
         port' = Append(port, n), UNCHANGED noTransactionHandlerQueue
  PROVE  Messages'
<1>a. /\ DOMAIN port = 1..Len(port) /\ Len(port) \in Nat
      /\ DOMAIN port' = 1..(Len(port) + 1) /\ port'[Len(port) + 1] = n
      /\ \A i \in DOMAIN port : port'[i] = port[i]
  <2>1. port \in Seq(Message)
    BY DEF TypeOK, FfiTypeOK
  <2> QED BY <2>1, AppendFacts
<1>1. ASSUME NEW i \in DOMAIN port' PROVE Fits(port[i])'
  <2>1. CASE i \in DOMAIN port
    <3>1. PICK m \in Message : m = port[i]
      BY <2>1, SentType
    <3>2. Fits(m)'
      BY <2>1, <3>1, FitsKept DEF Messages, NothingSent
    <3> QED BY <1>a, <2>1, <3>1, <3>2
  <2>2. CASE i = Len(port) + 1
    BY <1>a, <2>2
  <2> QED BY <1>a, <2>1, <2>2
<1>2. ASSUME NEW i \in DOMAIN noTransactionHandlerQueue
      PROVE  Fits(noTransactionHandlerQueue[i])'
  <2>1. PICK m \in Message : m = noTransactionHandlerQueue[i]
    BY SentType
  <2>2. Fits(m)'
    BY <2>1, FitsKept DEF Messages, NothingSent
  <2> QED BY <2>1, <2>2
<1>3. OneMessage'
  BY <1>a DEF Messages, OneMessage, NothingSent
<1>4. \A e \in Callers : at'[e] \in Quiet => answer'[e] = NoAnswer
  <2>1. at'[c] \notin Quiet
    BY DEF Fits, Quiet
  <2> QED BY <2>1 DEF Messages, OnlySends
<1> QED BY <1>1, <1>2, <1>3, <1>4 DEF Messages

(* The isolate takes a message and answers its sender.                     *)
LEMMA MessagesAnswered ==
  ASSUME TypeOK, Messages, NEW m \in Message, UNCHANGED dartVars,
         \A c \in Callers : c # m.from => answer'[c] = answer[c],
         \/ /\ port # <<>> /\ m = Head(port) /\ port' = Tail(port)
            /\ UNCHANGED noTransactionHandlerQueue
         \/ /\ noTransactionHandlerQueue # <<>>
            /\ m = Head(noTransactionHandlerQueue)
            /\ noTransactionHandlerQueue' = Tail(noTransactionHandlerQueue)
            /\ UNCHANGED port
  PROVE  Messages'
<1> DEFINE q == noTransactionHandlerQueue
<1>a. port \in Seq(Message) /\ q \in Seq(Message) /\ m.from \in Callers
  BY DEF TypeOK, FfiTypeOK, Message
<1>b. OnlySends(m.from)
  BY DEF OnlySends, dartVars
<1>c. \/ /\ port # <<>> /\ m = port[1] /\ 1 \in DOMAIN port
         /\ \A i \in DOMAIN port' : /\ i + 1 \in DOMAIN port /\ i + 1 # 1
                                    /\ i \in Int /\ port'[i] = port[i + 1]
         /\ q' = q
      \/ /\ q # <<>> /\ m = q[1] /\ 1 \in DOMAIN q
         /\ \A i \in DOMAIN q' : /\ i + 1 \in DOMAIN q /\ i + 1 # 1
                                 /\ i \in Int /\ q'[i] = q[i + 1]
         /\ port' = port
  BY <1>a, TailFacts
<1>1. ASSUME NEW i \in DOMAIN port' PROVE Fits(port[i])'
  <2>1. PICK j \in DOMAIN port : port'[i] = port[j] /\ port[j].from # m.from
    BY <1>c DEF Messages, OneMessage
  <2>2. PICK n \in Message : n = port[j]
    BY SentType
  <2>3. Fits(n)'
    BY <1>a, <1>b, <2>1, <2>2, FitsKept DEF Messages
  <2> QED BY <2>1, <2>2, <2>3
<1>2. ASSUME NEW i \in DOMAIN q' PROVE Fits(noTransactionHandlerQueue[i])'
  <2>1. PICK j \in DOMAIN q : q'[i] = q[j] /\ q[j].from # m.from
    BY <1>c DEF Messages, OneMessage
  <2>2. PICK n \in Message : n = q[j]
    BY SentType
  <2>3. Fits(n)'
    BY <1>a, <1>b, <2>1, <2>2, FitsKept DEF Messages
  <2> QED BY <2>1, <2>2, <2>3
<1>3. OneMessage'
  BY <1>c DEF Messages, OneMessage
<1>4. \A e \in Callers : at'[e] \in Quiet => answer'[e] = NoAnswer
  <2>1. Fits(m)
    BY <1>c DEF Messages
  <2>2. at[m.from] \notin Quiet
    BY <2>1, FitsKind
  <2> QED BY <2>2 DEF Messages, dartVars
<1> QED BY <1>1, <1>2, <1>3, <1>4 DEF Messages

(* The isolate parks a message. *)
LEMMA MessagesQueued ==
  ASSUME TypeOK, Messages, NEW m \in Message, UNCHANGED <<dartVars, answer>>,
         port # <<>>, m = Head(port), port' = Tail(port),
         noTransactionHandlerQueue' = Append(noTransactionHandlerQueue, m)
  PROVE  Messages'
<1> DEFINE q == noTransactionHandlerQueue
<1>a. port \in Seq(Message) /\ q \in Seq(Message)
  BY DEF TypeOK, FfiTypeOK
<1>b. /\ m = port[1] /\ 1 \in DOMAIN port
      /\ \A i \in DOMAIN port' : /\ i + 1 \in DOMAIN port /\ i + 1 # 1
                                 /\ i \in Int /\ port'[i] = port[i + 1]
  BY <1>a, TailFacts
<1>c. /\ \A i \in DOMAIN q' : i \in DOMAIN q \/ i = Len(q) + 1
      /\ q'[Len(q) + 1] = m /\ \A i \in DOMAIN q : q'[i] = q[i]
  BY <1>a, AppendFacts
<1>d. ASSUME NEW n, Fits(n) PROVE Fits(n)'
  BY <1>d DEF Fits, dartVars
<1>1. ASSUME NEW i \in DOMAIN port' PROVE Fits(port[i])'
  <2>1. PICK n : n = port[i + 1]
    OBVIOUS
  <2>2. Fits(n)'
    BY <1>b, <1>d, <2>1 DEF Messages
  <2> QED BY <1>b, <2>1, <2>2
<1>2. ASSUME NEW i \in DOMAIN q' PROVE Fits(noTransactionHandlerQueue[i])'
  <2>1. PICK n : n = q'[i]
    OBVIOUS
  <2>2. Fits(n)
    BY <1>b, <1>c, <2>1 DEF Messages
  <2> QED BY <1>d, <2>1, <2>2
<1>3. OneMessage'
  BY <1>b, <1>c DEF Messages, OneMessage
<1>4. \A e \in Callers : at'[e] \in Quiet => answer'[e] = NoAnswer
  BY DEF Messages, dartVars
<1> QED BY <1>1, <1>2, <1>3, <1>4 DEF Messages
-----------------------------------------------------------------------------
(* Every step keeps the messages in order.                                 *)

LEMMA EnterMessages ==
  ASSUME TypeOK, Messages, NEW c \in Callers, at[c] \in Quiet,
         UNCHANGED <<on, transaction>>,
         NEW what \in {"begin", "rollback"} \cup PlainCalls, Enter(c, what)
  PROVE  Messages'
<1> DEFINE n == [kind |-> what, from |-> c, tid |-> EntryId(what)]
<1>1. /\ UNCHANGED answer /\ Goto(c, EntryPlace(what)) /\ port' = Append(port, n)
      /\ UNCHANGED noTransactionHandlerQueue
  BY EnterCases DEF queueVars
<1>2. /\ at'[c] = EntryPlace(what)
      /\ \A e \in Callers : e # c => at'[e] = at[e]
  BY <1>1 DEF Goto, TypeOK
<1>3. n \in Message /\ n.from = c /\ n.kind = what /\ n.tid = EntryId(what)
  BY ConstantsAssumption DEF Message, Kinds, Statements, EntryId, NoTransaction
<1>4. answer'[c] = NoAnswer
  BY <1>1 DEF Messages
<1>5. Fits(n)'
  <2>1. CASE what \in {"begin", "rollback"}
    BY <1>2, <1>3, <1>4, <2>1 DEF Fits, EntryPlace, EntryId
  <2>2. CASE what \notin {"begin", "rollback"}
    BY <1>2, <1>3, <1>4, <2>2, ConstantsAssumption DEF Fits, EntryPlace, EntryId
  <2> QED BY <2>1, <2>2
<1>6. OnlySends(c)
  BY <1>1, <1>2 DEF OnlySends
<1>7. NothingSent(c)
  BY UnsentWhere
<1> HIDE DEF n
<1> QED BY <1>1, <1>3, <1>5, <1>6, <1>7, MessagesSent

LEMMA SynchronizedMessages ==
  ASSUME TypeOK, Messages, NEW c \in Callers, at[c] \in Quiet,
         UNCHANGED <<on, transaction>>,
         NEW what \in {"begin", "rollback"} \cup PlainCalls, Synchronized(c, what)
  PROVE  Messages'
<1>1. CASE Enter(c, what)
  BY <1>1, EnterMessages
<1>2. CASE Goto(c, "waiting") /\ UNCHANGED port
  <2>1. UNCHANGED <<answer, noTransactionHandlerQueue>>
    BY SynchronizedCases DEF queueVars
  <2>2. answer'[c] = NoAnswer
    BY <2>1 DEF Messages
  <2>3. OnlySends(c)
    BY <1>2, <2>1 DEF OnlySends, Goto, TypeOK
  <2> QED BY <1>2, <2>1, <2>2, <2>3, UnsentWhere, MessagesUnsent
<1> QED BY <1>1, <1>2, SynchronizedCases

(* c posts one message and goes to the place where it fits. *)
LEMMA PostMessages ==
  ASSUME TypeOK, Messages, NEW c \in Callers, at[c] \in Quiet, UNCHANGED answer,
         NEW kind \in Kinds, NEW tid \in Nat \cup {ForceId}, Post(kind, c, tid),
         NEW place \in {"txnCall", "end", "close"}, Goto(c, place),
         \A e \in Callers : e # c => /\ on'[e] = on[e]
                                     /\ transaction'[e].id = transaction[e].id,
         \/ place = "txnCall" /\ kind \in TransactionCalls /\ tid = on'[c].id
         \/ /\ place = "end" /\ kind \in {"commit", "rollback"}
            /\ tid = transaction'[c].id
         \/ place = "close" /\ kind = "close"
  PROVE  Messages'
<1> DEFINE n == [kind |-> kind, from |-> c, tid |-> tid]
<1>1. port' = Append(port, n) /\ UNCHANGED noTransactionHandlerQueue
  BY DEF Post, queueVars
<1>2. /\ at'[c] = place
      /\ \A e \in Callers : e # c => at'[e] = at[e]
  BY DEF Goto, TypeOK
<1>3. n \in Message /\ n.from = c /\ n.kind = kind /\ n.tid = tid
  BY DEF Message
<1>4. answer'[c] = NoAnswer
  BY DEF Messages
<1>5. Fits(n)'
  BY <1>2, <1>3, <1>4 DEF Fits
<1>6. OnlySends(c)
  BY <1>2 DEF OnlySends
<1>7. NothingSent(c)
  BY UnsentWhere
<1> HIDE DEF n
<1> QED BY <1>1, <1>3, <1>5, <1>6, <1>7, MessagesSent

(* c takes its answer and goes on. *)
LEMMA TakeMessages ==
  ASSUME TypeOK, Messages, NEW c \in Callers, Answered(c), UNCHANGED port,
         \A e \in Callers : e # c => /\ at'[e] = at[e] /\ on'[e] = on[e]
                                     /\ transaction'[e].id = transaction[e].id
  PROVE  Messages'
<1>1. /\ answer[c] # NoAnswer /\ answer'[c] = NoAnswer
      /\ \A e \in Callers : e # c => answer'[e] = answer[e]
      /\ UNCHANGED noTransactionHandlerQueue
  BY DEF Answered, TypeOK, FfiTypeOK, queueVars
<1>2. OnlySends(c)
  BY <1>1 DEF OnlySends
<1> QED BY <1>1, <1>2, UnsentWhere, MessagesUnsent

LEMMA CallerMessages ==
  ASSUME LockInvariant, Messages, NEW c \in Callers, Caller(c)
  PROVE  Messages'
<1>a. TypeOK
  BY DEF LockInvariant
<1>1. CASE CallDatabase(c)
  <2>1. PICK what \in {"begin", "rollback"} \cup PlainCalls :
               Synchronized(c, what)
    BY <1>1 DEF CallDatabase
  <2>2. at[c] \in Quiet /\ UNCHANGED <<on, transaction>>
    BY <1>1 DEF CallDatabase, Quiet
  <2> QED BY <1>a, <2>1, <2>2, SynchronizedMessages
<1>2. ASSUME NEW o \in Callers, CallOnTransaction(c, o) PROVE Messages'
  <2>1. PICK kind \in TransactionCalls : Post(kind, c, transaction[o].id)
    BY <1>2 DEF CallOnTransaction
  <2>2. /\ at[c] \in Quiet /\ Goto(c, "txnCall") /\ UNCHANGED <<answer, transaction>>
        /\ on'[c].id = transaction[o].id
        /\ \A e \in Callers : e # c => on'[e] = on[e]
    BY <1>2, <1>a DEF CallOnTransaction, Quiet, TypeOK
  <2>3. kind \in Kinds /\ transaction[o].id \in Nat \cup {ForceId}
    BY <1>a, ConstantsAssumption DEF Kinds, TypeOK
  <2> QED BY <1>a, <2>1, <2>2, <2>3, PostMessages
<1>3. CASE FinishCallback(c)
  <2>1. /\ at[c] \in Quiet /\ at'[c] \in Quiet
        /\ UNCHANGED <<port, noTransactionHandlerQueue, answer, on, transaction>>
        /\ \A e \in Callers : e # c => at'[e] = at[e]
    BY <1>3, <1>a DEF FinishCallback, Quiet, Goto, TypeOK, ffiVars, queueVars
  <2>2. OnlySends(c)
    BY <2>1 DEF OnlySends
  <2>3. answer'[c] = NoAnswer
    BY <2>1 DEF Messages
  <2> QED BY <1>a, <2>1, <2>2, <2>3, UnsentWhere, MessagesUnsent
<1>4. ASSUME SendClose(c), at[c] \in Quiet, UNCHANGED <<answer, on, transaction>>
      PROVE  Messages'
  BY <1>a, <1>4, PostMessages DEF SendClose, Kinds, NoTransaction
<1>5. CASE Close(c)
  <2>1. at[c] \in Quiet /\ UNCHANGED <<on, transaction>>
    BY <1>5 DEF Close, Quiet
  <2> QED BY <1>4, <1>5, <1>a, <2>1, SynchronizedMessages DEF Close
<1>6. CASE Granted(c)
  <2>1. /\ at[c] \in Quiet /\ Enter(c, wanted[c])
        /\ UNCHANGED <<on, transaction>>
        /\ wanted[c] \in {"begin", "rollback"} \cup PlainCalls
    BY <1>6 DEF Granted, Quiet, LockInvariant, LockWishes
  <2> QED BY <1>a, <2>1, EnterMessages
<1>7. CASE CallAnswered(c) \/ Ended(c) \/ RolledBack(c) \/ Closed(c)
  <2>1. /\ Answered(c) /\ UNCHANGED <<port, on>>
        /\ \A e \in Callers : e # c => /\ at'[e] = at[e]
                                       /\ transaction'[e] = transaction[e]
    BY <1>7, <1>a DEF CallAnswered, Ended, RolledBack, Closed, Goto, TypeOK
  <2> QED BY <1>a, <2>1, TakeMessages
<1>8. CASE Began(c)
  <2>1. /\ Answered(c) /\ UNCHANGED <<port, on>>
        /\ \A e \in Callers : e # c => /\ at'[e] = at[e]
                                       /\ transaction'[e] = transaction[e]
    BY <1>8, <1>a DEF Began, Goto, TypeOK
  <2> QED BY <1>a, <2>1, TakeMessages
<1>9. CASE TransactionCallAnswered(c)
  <2>1. /\ Answered(c) /\ UNCHANGED port
        /\ \A e \in Callers : e # c => at'[e] = at[e] /\ on'[e] = on[e]
    BY <1>9, <1>a DEF TransactionCallAnswered, Goto, TypeOK
  <2>2. \A e \in Callers : transaction'[e].id = transaction[e].id
    BY <1>9, <1>a DEF TransactionCallAnswered, TypeOK
  <2> QED BY <1>a, <2>1, <2>2, TakeMessages
<1>10. CASE EndTransaction(c)
  <2>1. /\ at[c] = "finished" /\ at[c] \in Quiet /\ UNCHANGED on
        /\ \A e \in Callers : e # c => /\ at'[e] = at[e]
                                       /\ transaction'[e] = transaction[e]
    BY <1>10, <1>a DEF EndTransaction, Quiet, Goto, TypeOK
  <2>2. CASE transaction[c].closed
    <3>1. at'[c] \in Quiet /\ UNCHANGED <<port, noTransactionHandlerQueue, answer>>
      BY <1>10, <1>a, <2>2
      DEF EndTransaction, Quiet, Goto, TypeOK, ffiVars, queueVars
    <3>2. answer'[c] = NoAnswer
      BY <2>1, <3>1 DEF Messages
    <3>3. OnlySends(c)
      BY <2>1, <3>1 DEF OnlySends
    <3> QED BY <1>a, <2>1, <3>1, <3>2, <3>3, UnsentWhere, MessagesUnsent
  <2>3. CASE ~transaction[c].closed
    <3>1. PICK kind \in {"commit", "rollback"} : Post(kind, c, transaction[c].id)
      BY <1>10, <2>3 DEF EndTransaction
    <3>2. Goto(c, "end") /\ UNCHANGED <<answer, transaction>>
      BY <1>10, <2>3 DEF EndTransaction
    <3>3. kind \in Kinds /\ transaction[c].id \in Nat \cup {ForceId}
      BY <1>a DEF Kinds, TypeOK
    <3> QED BY <1>a, <2>1, <3>1, <3>2, <3>3, PostMessages
  <2> QED BY <2>2, <2>3
<1>11. CASE InvokeCloseDatabase(c)
  BY <1>4, <1>11 DEF InvokeCloseDatabase, Quiet
<1> QED BY <1>1, <1>2, <1>3, <1>5, <1>6, <1>7, <1>8, <1>9, <1>10, <1>11
        DEF Caller, Continue

(* Only a close that cancels parked handlers answers messages it leaves    *)
(* where they are.                                                         *)
LEMMA IsolateMessages ==
  ASSUME LockInvariant, Messages, IsolateStep,
         isOpen' \/ noTransactionHandlerQueue = <<>>
  PROVE  Messages'
<1>a. TypeOK /\ FfiTypeOK /\ UNCHANGED dartVars
  BY DEF LockInvariant, TypeOK, IsolateStep
<1>1. CASE /\ RunQueuedHandler /\ noTransactionHandlerQueue # <<>>
           /\ Head(noTransactionHandlerQueue) \in Message
  <2>1. PICK m \in Message : m = Head(noTransactionHandlerQueue) /\ Run(m)
    BY <1>1 DEF RunQueuedHandler
  <2>2. /\ noTransactionHandlerQueue' = Tail(noTransactionHandlerQueue)
        /\ UNCHANGED port
    BY <1>1 DEF RunQueuedHandler
  <2> QED BY <1>1, <1>a, <2>1, <2>2, RunType, MessagesAnswered
<1>2. ASSUME NEW m \in Message, HandleOutside(m) \/ HandleInTransaction(m)
      PROVE  Messages'
  <2>1. /\ Run(m) /\ port # <<>> /\ m = Head(port) /\ port' = Tail(port)
        /\ UNCHANGED noTransactionHandlerQueue
    BY <1>2 DEF HandleOutside, HandleInTransaction, NextMessage, queueVars
  <2>2. \A c \in Callers : c # m.from => answer'[c] = answer[c]
    BY <1>a, <2>1, RunType
  <2> QED BY <1>a, <2>1, <2>2, MessagesAnswered
<1>3. ASSUME NEW m \in Message, QueueHandler(m) PROVE Messages'
  BY <1>3, <1>a, MessagesQueued DEF QueueHandler, NextMessage
<1>4. ASSUME NEW m \in Message, HandleClose(m) PROVE Messages'
  <2>1. /\ port # <<>> /\ m = Head(port) /\ port' = Tail(port)
        /\ UNCHANGED noTransactionHandlerQueue
    BY <1>4 DEF HandleClose, NextMessage, queueVars
  <2>2. noTransactionHandlerQueue = <<>>
    BY <1>4 DEF HandleClose
  <2>3. \A c \in Callers : c # m.from => answer'[c] = answer[c]
    <3>1. {noTransactionHandlerQueue[i].from :
             i \in DOMAIN noTransactionHandlerQueue} = {}
      BY <2>2
    <3> QED BY <1>4, <3>1 DEF HandleClose
  <2> QED BY <1>a, <2>1, <2>3, MessagesAnswered
<1> QED BY <1>1, <1>2, <1>3, <1>4, IsolateCases DEF IsolateStep

LEMMA MessagesStep ==
  ASSUME LockInvariant, Messages, [Next]_vars,
         isOpen' \/ noTransactionHandlerQueue = <<>>
  PROVE  Messages'
<1>1. CASE UNCHANGED vars
  BY <1>1 DEF Messages, OneMessage, Fits, vars, dartVars, ffiVars, queueVars
<1> QED BY <1>1, CallerMessages, IsolateMessages DEF Next
-----------------------------------------------------------------------------
(* The ids of the transactions, and the transaction SQLite has open.       *)

(* c's BEGIN was granted, and c does not know yet. *)
Begun(c) == at[c] = "begin" /\ answer[c].ok

Owner(c) == Begun(c) \/ InTransaction(c) \/ at[c] = "end"

OwnId(c) == IF at[c] = "begin" THEN answer[c].id ELSE transaction[c].id

(* Every transaction has an id of its own; one that was answered closed    *)
(* is not the current one.                                                 *)
Owners ==
  /\ \A o \in Callers : Owner(o) => OwnId(o) \in 1..lastTransactionId
  /\ \A o, p \in Callers : Owner(o) /\ Owner(p) /\ OwnId(o) = OwnId(p) => o = p
  /\ currentTransactionId <= lastTransactionId
  /\ \A c \in Callers :
       at[c] = "txnCall" /\ answer[c].closed => on[c].id # currentTransactionId

Noticed == openTx => currentTransactionId # NoTransaction

(* What a handler may do to the ids. *)
Begins(m) ==
  /\ m.kind = "begin" /\ isOpen /\ ~openTx /\ openTx'
  /\ lastTransactionId' = lastTransactionId + 1
  /\ currentTransactionId' = lastTransactionId + 1
  /\ answer'[m.from] = [ok |-> TRUE, closed |-> FALSE, id |-> lastTransactionId + 1]
  /\ UNCHANGED <<writes, durable>>

BeginFails(m) ==
  /\ m.kind = "begin"
  /\ lastTransactionId' = lastTransactionId + 1
  /\ currentTransactionId' = NoTransaction
  /\ answer'[m.from] = [ok |-> FALSE, closed |-> FALSE, id |-> NoTransaction]
  /\ UNCHANGED sqliteVars

GoesOn(m) ==
  /\ m.kind # "begin" /\ UNCHANGED idVars
  /\ ~answer'[m.from].closed /\ (openTx' => openTx)

Ends(m) ==
  /\ m.kind \in {"commit", "rollback"} /\ UNCHANGED lastTransactionId
  /\ openTx /\ ~openTx' /\ currentTransactionId' = NoTransaction
  /\ writes' = {} /\ ~answer'[m.from].closed

FindsClosed(m) ==
  /\ m.kind \notin {"begin", "batch"} /\ UNCHANGED lastTransactionId
  /\ isOpen /\ ~openTx' /\ answer'[m.from].closed
  /\ currentTransactionId # NoTransaction /\ currentTransactionId' = NoTransaction

LEMMA RunCases ==
  ASSUME FfiTypeOK, NEW m \in Message, Run(m)
  PROVE  Begins(m) \/ BeginFails(m) \/ GoesOn(m) \/ Ends(m) \/ FindsClosed(m)
<1>a. \A ok, closed, id :
        Answer(m, ok, closed, id) =>
          answer'[m.from] = [ok |-> ok, closed |-> closed, id |-> id]
  BY DEF Answer, FfiTypeOK, Message
<1>e. \A ok, id :
        /\ Answer(m, ok, TRUE, id) => answer'[m.from].closed
        /\ Answer(m, ok, FALSE, id) => ~answer'[m.from].closed
  <2>3. ASSUME NEW ok, NEW id, Answer(m, ok, TRUE, id)
        PROVE  answer'[m.from].closed
    <3>1. answer'[m.from] = [ok |-> ok, closed |-> TRUE, id |-> id]
      BY <1>a, <2>3
    <3> QED BY <3>1
  <2>4. ASSUME NEW ok, NEW id, Answer(m, ok, FALSE, id)
        PROVE  ~answer'[m.from].closed
    <3>1. answer'[m.from] = [ok |-> ok, closed |-> FALSE, id |-> id]
      BY <1>a, <2>4
    <3> QED BY <3>1
  <2> QED BY <2>3, <2>4
<1>b. ASSUME Throw(m), m.kind # "begin", UNCHANGED lastTransactionId, openTx' => openTx
      PROVE  GoesOn(m) \/ FindsClosed(m)
  <2>1. CASE /\ TransactionClosed(m) /\ currentTransactionId' = NoTransaction
             /\ Answer(m, FALSE, TRUE, NoTransaction)
    BY <1>b, <1>e, <2>1 DEF TransactionClosed, FindsClosed
  <2>2. CASE UNCHANGED currentTransactionId /\ Answer(m, FALSE, FALSE, NoTransaction)
    BY <1>b, <1>e, <2>2 DEF GoesOn, idVars
  <2> QED BY <1>b, <2>1, <2>2, ThrowCases
<1>1. CASE HandleBegin(m)
  BY <1>1, <1>a DEF HandleBegin, Begins, BeginFails
<1>2. CASE HandleStatement(m)
  <2>1. /\ m.kind # "begin" /\ UNCHANGED lastTransactionId
        /\ Write(m.tid) \/ UNCHANGED sqliteVars \/ AutoRollback
    BY <1>2 DEF HandleStatement, Statements
  <2>2. openTx' => openTx
    BY <2>1 DEF Write, AutoRollback, sqliteVars
  <2>3. CASE Throw(m)
    BY <1>b, <2>1, <2>2, <2>3
  <2>4. CASE Answer(m, TRUE, FALSE, NoTransaction) /\ UNCHANGED currentTransactionId
    BY <1>e, <2>1, <2>2, <2>4 DEF GoesOn, idVars
  <2> QED BY <1>2, <2>3, <2>4 DEF HandleStatement
<1>3. CASE m.kind \in {"commit", "rollback"} /\ LeaveTransaction(m)
  BY <1>3, <1>e DEF LeaveTransaction, Ends
<1>4. CASE /\ m.kind \in {"commit", "rollback"} /\ Throw(m)
           /\ UNCHANGED <<sqliteVars, lastTransactionId>>
  BY <1>b, <1>4 DEF sqliteVars
<1> QED BY <1>1, <1>2, <1>3, <1>4 DEF Run, HandleCommit, HandleRollback

(* What the isolate takes was sent by a caller that waits for its answer.  *)
LEMMA IsolateTakes ==
  ASSUME LockInvariant, Messages, IsolateStep
  PROVE  \E m \in Message :
           /\ Fits(m) /\ UNCHANGED dartVars
           /\ \/ /\ port # <<>> /\ m = Head(port) /\ port' = Tail(port)
              \/ noTransactionHandlerQueue # <<>>
           /\ \/ /\ Run(m) /\ m.kind # "close" /\ isOpen' = isOpen
                 /\ currentTransactionId = NoTransaction \/ Admitted(m)
                 /\ \A c \in Callers : c # m.from => answer'[c] = answer[c]
              \/ QueueHandler(m)
              \/ HandleClose(m)
<1>a. TypeOK /\ FfiTypeOK /\ UNCHANGED dartVars
  BY DEF LockInvariant, TypeOK, IsolateStep
<1>b. /\ port # <<>> => Fits(Head(port))
      /\ noTransactionHandlerQueue # <<>> => Fits(Head(noTransactionHandlerQueue))
  <2>1. port \in Seq(Message) /\ noTransactionHandlerQueue \in Seq(Message)
    BY <1>a DEF FfiTypeOK
  <2> QED BY <2>1, TailFacts DEF Messages
<1>c. \A m : Fits(m) /\ Run(m) => m.kind # "close"
  BY DEF Run, HandleBegin, HandleStatement, HandleCommit, HandleRollback, Statements
<1>1. CASE /\ RunQueuedHandler /\ currentTransactionId = NoTransaction
           /\ noTransactionHandlerQueue # <<>>
           /\ Head(noTransactionHandlerQueue) \in Message
  <2>1. PICK m \in Message : m = Head(noTransactionHandlerQueue) /\ Run(m)
    BY <1>1 DEF RunQueuedHandler
  <2> QED BY <1>1, <1>a, <1>b, <1>c, <2>1, RunType
<1>2. ASSUME NEW m \in Message, HandleOutside(m) \/ HandleInTransaction(m)
      PROVE  /\ Fits(m) /\ port # <<>> /\ m = Head(port) /\ port' = Tail(port)
             /\ Run(m) /\ m.kind # "close" /\ isOpen' = isOpen
             /\ currentTransactionId = NoTransaction \/ Admitted(m)
             /\ \A c \in Callers : c # m.from => answer'[c] = answer[c]
  BY <1>2, <1>a, <1>b, RunType DEF HandleOutside, HandleInTransaction, NextMessage
<1>3. ASSUME NEW m \in Message, QueueHandler(m) \/ HandleClose(m)
      PROVE  Fits(m) /\ port # <<>> /\ m = Head(port) /\ port' = Tail(port)
  BY <1>3, <1>b DEF QueueHandler, HandleClose, NextMessage
<1> QED BY <1>1, <1>2, <1>3, <1>a, IsolateCases DEF IsolateStep

LEMMA OwnedCall ==
  ASSUME LockInvariant, Owners, NEW c \in Callers, at[c] = "txnCall"
  PROVE  /\ on[c].id \in 1..lastTransactionId /\ on[c].owner \in Callers
         /\ InTransaction(on[c].owner) /\ Owner(on[c].owner)
         /\ OwnId(on[c].owner) = on[c].id
<1>1. /\ on[c].owner \in Callers /\ InTransaction(on[c].owner)
      /\ on[c].id = transaction[on[c].owner].id
  BY DEF LockInvariant, TypeOK, CallsOn
<1>2. OwnId(on[c].owner) = on[c].id /\ Owner(on[c].owner)
  BY <1>1 DEF OwnId, Owner, InTransaction
<1> QED BY <1>1, <1>2 DEF Owners

LEMMA OwnersByRun ==
  ASSUME LockInvariant, Owners, NEW m \in Message, Fits(m), Run(m),
         UNCHANGED dartVars,
         \A c \in Callers : c # m.from => answer'[c] = answer[c]
  PROVE  Owners'
<1> DEFINE p == m.from
<1>a. /\ p \in Callers /\ lastTransactionId \in Nat /\ currentTransactionId \in Nat
      /\ FfiTypeOK
  BY DEF LockInvariant, TypeOK, FfiTypeOK, Message
<1>b. \A o \in Callers : o # p =>
        /\ Owner(o)' <=> Owner(o)
        /\ OwnId(o)' = OwnId(o)
  BY DEF dartVars, Owner, OwnId, Begun, InTransaction
<1>c. \A c \in Callers : at[c] = "txnCall" => on[c].id \in 1..lastTransactionId
  BY OwnedCall
<1>d. m.kind = "begin" <=> at[p] = "begin"
  BY FitsKind
<1>e. at[p] # "begin" => /\ Owner(p)' <=> Owner(p)
                         /\ OwnId(p)' = OwnId(p)
  BY DEF dartVars, Owner, OwnId, Begun, InTransaction
<1>f. UNCHANGED <<at, on>>
  BY DEF dartVars
<1>1. CASE Begins(m)
  <2>1. at[p] = "begin" /\ OwnId(p)' = lastTransactionId + 1
    BY <1>1, <1>d, <1>f DEF Begins, OwnId
  <2>2. \A o \in Callers : Owner(o)' /\ o # p => OwnId(o)' \in 1..lastTransactionId
    BY <1>b DEF Owners
  <2>3. \A o, q \in Callers :
          Owner(o)' /\ Owner(q)' /\ OwnId(o)' = OwnId(q)' => o = q
    BY <1>a, <1>b, <2>1, <2>2 DEF Owners
  <2>4. \A o \in Callers : Owner(o)' => OwnId(o)' \in 1..lastTransactionId'
    BY <1>1, <1>a, <2>1, <2>2 DEF Begins
  <2>5. \A c \in Callers : at'[c] = "txnCall" => on'[c].id # currentTransactionId'
    BY <1>1, <1>a, <1>c, <1>f DEF Begins
  <2> QED BY <1>1, <1>a, <2>3, <2>4, <2>5 DEF Begins, Owners
<1>2. CASE BeginFails(m)
  <2>1. at[p] = "begin" /\ ~Owner(p)'
    BY <1>2, <1>d, <1>f DEF BeginFails, Owner, Begun, InTransaction
  <2>2. \A o \in Callers : Owner(o)' =>
          o # p /\ Owner(o) /\ OwnId(o)' = OwnId(o)
    BY <1>b, <2>1
  <2>3. \A c \in Callers : at'[c] = "txnCall" => on'[c].id # currentTransactionId'
    BY <1>2, <1>c, <1>f DEF BeginFails, NoTransaction
  <2>4. /\ \A o \in Callers : Owner(o)' => OwnId(o)' \in 1..lastTransactionId'
        /\ currentTransactionId' <= lastTransactionId'
    BY <1>2, <1>a, <2>2 DEF BeginFails, Owners, NoTransaction
  <2>5. \A o, q \in Callers :
          Owner(o)' /\ Owner(q)' /\ OwnId(o)' = OwnId(q)' => o = q
    BY <2>2 DEF Owners
  <2> QED BY <2>3, <2>4, <2>5 DEF Owners
<1>3. CASE GoesOn(m) \/ Ends(m) \/ FindsClosed(m)
  <2>1. /\ m.kind # "begin" /\ lastTransactionId' = lastTransactionId
        /\ currentTransactionId' \in {currentTransactionId, NoTransaction}
        /\ answer'[p].closed => currentTransactionId' = NoTransaction
    BY <1>3 DEF GoesOn, Ends, FindsClosed, idVars
  <2>2. \A o \in Callers : /\ Owner(o)' <=> Owner(o)
                           /\ OwnId(o)' = OwnId(o)
    BY <1>b, <1>d, <1>e, <2>1
  <2>3. /\ \A o \in Callers : Owner(o)' => OwnId(o)' \in 1..lastTransactionId'
        /\ \A o, q \in Callers :
             Owner(o)' /\ Owner(q)' /\ OwnId(o)' = OwnId(q)' => o = q
        /\ currentTransactionId' <= lastTransactionId'
    BY <1>a, <2>1, <2>2 DEF Owners, NoTransaction
  <2>4. \A c \in Callers : at'[c] = "txnCall" /\ answer'[c].closed =>
                           on'[c].id # currentTransactionId'
    BY <1>c, <1>f, <2>1 DEF Owners, NoTransaction
  <2> QED BY <2>3, <2>4 DEF Owners
<1> QED BY <1>1, <1>2, <1>3, <1>a, RunCases
LEMMA OwnersKept ==
  ASSUME Owners, NEW c \in Callers, OnlySends(c), UNCHANGED idVars,
         Owner(c)' => Owner(c) /\ OwnId(c)' = OwnId(c),
         ~(at'[c] = "txnCall" /\ answer'[c].closed)
  PROVE  Owners'
<1>1. \A o \in Callers : Owner(o)' => Owner(o) /\ OwnId(o)' = OwnId(o)
  BY DEF OnlySends, Owner, OwnId, Begun, InTransaction
<1>2. /\ lastTransactionId' = lastTransactionId
      /\ currentTransactionId' = currentTransactionId
  BY DEF idVars
<1>3. \A e \in Callers : at'[e] = "txnCall" /\ answer'[e].closed =>
                        on'[e].id # currentTransactionId'
  BY <1>2 DEF OnlySends, Owners
<1> QED BY <1>1, <1>2, <1>3 DEF Owners

(* What a step of c does to c, as far as the ids can tell. *)
LEMMA CallerOwns ==
  ASSUME LockInvariant, Messages, NEW c \in Callers, Caller(c)
  PROVE  /\ OnlySends(c)
         /\ Owner(c)' => Owner(c) /\ OwnId(c)' = OwnId(c)
         /\ ~(at'[c] = "txnCall" /\ answer'[c].closed)
         /\ ~Begun(c)'
         /\ InTransaction(c)' => InTransaction(c) \/ Begun(c)
         /\ at'[c] = "end" => InTransaction(c)
<1>a. TypeOK /\ answer \in [Callers -> AnswerType]
  BY DEF LockInvariant, TypeOK, FfiTypeOK
<1>b. at[c] \in Quiet => ~answer[c].ok /\ ~answer[c].closed
  BY DEF Messages, NoAnswer
<1>c. ~NoAnswer.ok /\ ~NoAnswer.closed
  BY DEF NoAnswer
<1>d. ASSUME Answered(c)
      PROVE  /\ answer'[c] = NoAnswer
             /\ \A e \in Callers : e # c => answer'[e] = answer[e]
  BY <1>a, <1>d DEF Answered
<1>e. ASSUME NEW what, Enter(c, what)
      PROVE  /\ UNCHANGED answer
             /\ at'[c] \in {"statement", "begin", "forceRollback"}
             /\ \A e \in Callers : e # c => at'[e] = at[e]
  <2>1. UNCHANGED answer /\ Goto(c, EntryPlace(what))
    BY <1>e, EnterCases
  <2> QED BY <1>a, <2>1 DEF EntryPlace, Goto, TypeOK
<1>f. ASSUME NEW what, Synchronized(c, what)
      PROVE  /\ UNCHANGED answer
             /\ at'[c] \in {"waiting", "statement", "begin", "forceRollback"}
             /\ \A e \in Callers : e # c => at'[e] = at[e]
  <2>1. CASE Enter(c, what)
    BY <1>e, <2>1
  <2>2. CASE Goto(c, "waiting")
    BY <1>a, <1>f, <2>2, SynchronizedCases DEF Goto, TypeOK
  <2> QED BY <1>f, <2>1, <2>2, SynchronizedCases
<1>g. ASSUME UNCHANGED <<answer, on, transaction>>, at[c] \in Quiet,
             at'[c] \in {"waiting", "statement", "begin", "forceRollback", "close"},
             \A e \in Callers : e # c => at'[e] = at[e]
      PROVE  OnlySends(c) /\ ~Owner(c)' /\ ~Begun(c)' /\ ~InTransaction(c)'
             /\ at'[c] \notin {"end", "txnCall"}
  BY <1>b, <1>g DEF OnlySends, Owner, Begun, InTransaction
<1>1. CASE CallDatabase(c)
  <2>1. /\ at[c] \in Quiet /\ UNCHANGED <<on, transaction>>
        /\ \E what : Synchronized(c, what)
    BY <1>1 DEF CallDatabase, Quiet
  <2> QED BY <1>f, <1>g, <2>1
<1>2. ASSUME NEW o \in Callers, CallOnTransaction(c, o)
      PROVE  /\ OnlySends(c) /\ ~answer'[c].closed /\ at'[c] = "txnCall"
             /\ Owner(c)' => Owner(c) /\ OwnId(c)' = OwnId(c)
             /\ InTransaction(c)' => InTransaction(c)
  <2>1. /\ at[c] = (IF c = o THEN "callback" ELSE "idle") /\ at'[c] = "txnCall"
        /\ on'[c].owner = o /\ UNCHANGED <<answer, transaction>>
        /\ \A e \in Callers : e # c => at'[e] = at[e] /\ on'[e] = on[e]
    BY <1>2, <1>a DEF CallOnTransaction, Goto, TypeOK
  <2>2. at[c] \in Quiet
    BY <2>1 DEF Quiet
  <2> QED BY <1>b, <2>1, <2>2 DEF OnlySends, Owner, OwnId, Begun, InTransaction
<1>3. CASE FinishCallback(c)
  <2>1. /\ at[c] = "callback" /\ at'[c] = "finished"
        /\ UNCHANGED <<answer, on, transaction>>
        /\ \A e \in Callers : e # c => at'[e] = at[e]
    BY <1>3, <1>a DEF FinishCallback, Goto, TypeOK, ffiVars
  <2> QED BY <2>1 DEF OnlySends, Owner, OwnId, Begun, InTransaction
<1>4. CASE Close(c)
  <2>1. at[c] \in Quiet /\ UNCHANGED <<on, transaction>>
    BY <1>4 DEF Close, Quiet
  <2>2. CASE Synchronized(c, "rollback")
    BY <1>f, <1>g, <2>1, <2>2
  <2>3. CASE SendClose(c) /\ UNCHANGED answer
    BY <1>a, <1>g, <2>1, <2>3 DEF SendClose, Goto, TypeOK
  <2> QED BY <1>4, <2>2, <2>3 DEF Close
<1>5. CASE Granted(c)
  BY <1>5, <1>e, <1>g DEF Granted, Quiet
<1>6. CASE CallAnswered(c) \/ Ended(c) \/ RolledBack(c) \/ Closed(c)
  <2>1. /\ Answered(c) /\ at'[c] \in {"idle", "closing"} /\ UNCHANGED on
        /\ \A e \in Callers : e # c => /\ at'[e] = at[e]
                                       /\ transaction'[e] = transaction[e]
    BY <1>6, <1>a DEF CallAnswered, Ended, RolledBack, Closed, Goto, TypeOK
  <2> QED BY <1>d, <2>1 DEF OnlySends, Owner, Begun, InTransaction
<1>7. CASE Began(c)
  <2>1. /\ at[c] = "begin" /\ Answered(c) /\ UNCHANGED on
        /\ \A e \in Callers : e # c => /\ at'[e] = at[e]
                                       /\ transaction'[e] = transaction[e]
    BY <1>7, <1>a DEF Began, Goto, TypeOK
  <2>2. OnlySends(c)
    BY <1>d, <2>1 DEF OnlySends
  <2>3. CASE answer[c].ok
    <3>1. at'[c] = "callback" /\ transaction'[c].id = answer[c].id
      BY <1>7, <1>a, <2>3 DEF Began, Goto, TypeOK
    <3> QED BY <2>1, <2>2, <2>3, <3>1 DEF Owner, OwnId, Begun
  <2>4. CASE ~answer[c].ok
    <3>1. at'[c] = "idle"
      BY <1>7, <1>a, <2>4 DEF Began, Goto, TypeOK
    <3> QED BY <2>2, <3>1 DEF Owner, Begun, InTransaction
  <2> QED BY <2>3, <2>4
<1>8. CASE TransactionCallAnswered(c)
  <2>1. /\ at[c] = "txnCall" /\ Answered(c)
        /\ at'[c] = IF on[c].owner = c THEN "callback" ELSE "idle"
        /\ \A e \in Callers : e # c => at'[e] = at[e] /\ on'[e] = on[e]
    BY <1>8, <1>a DEF TransactionCallAnswered, Goto, TypeOK
  <2>2. \A e \in Callers : transaction'[e].id = transaction[e].id
    BY <1>8, <1>a DEF TransactionCallAnswered, TypeOK
  <2> QED BY <1>d, <2>1, <2>2 DEF OnlySends, Owner, OwnId, Begun, InTransaction
<1>9. CASE EndTransaction(c)
  <2>1. /\ at[c] = "finished" /\ UNCHANGED <<answer, on>>
        /\ \A e \in Callers : e # c => /\ at'[e] = at[e]
                                       /\ transaction'[e] = transaction[e]
        /\ at'[c] = "idle" \/ (at'[c] = "end" /\ UNCHANGED transaction)
    <3>1. CASE transaction[c].closed
      BY <1>9, <1>a, <3>1 DEF EndTransaction, Goto, TypeOK, ffiVars
    <3>2. CASE ~transaction[c].closed
      BY <1>9, <1>a, <3>2 DEF EndTransaction, Goto, TypeOK
    <3> QED BY <3>1, <3>2
  <2> QED BY <2>1 DEF OnlySends, Owner, OwnId, Begun, InTransaction
<1>10. CASE InvokeCloseDatabase(c)
  <2>1. /\ at[c] = "closing" /\ at'[c] = "close"
        /\ UNCHANGED <<answer, on, transaction>>
        /\ \A e \in Callers : e # c => at'[e] = at[e]
    BY <1>10, <1>a DEF InvokeCloseDatabase, SendClose, Goto, TypeOK
  <2> QED BY <1>g, <2>1 DEF Quiet
<1> QED BY <1>1, <1>2, <1>3, <1>4, <1>5, <1>6, <1>7, <1>8, <1>9, <1>10
        DEF Caller, Continue, Begun

LEMMA NoticedByRun ==
  ASSUME LockInvariant, Noticed, NEW m \in Message, Fits(m), Run(m),
         currentTransactionId = NoTransaction \/ Admitted(m)
  PROVE  Noticed'
<1>a. FfiTypeOK /\ lastTransactionId \in Nat
  BY DEF LockInvariant, TypeOK, FfiTypeOK
<1>1. CASE Begins(m)
  BY <1>1, <1>a DEF Begins, Noticed, NoTransaction
<1>2. CASE BeginFails(m)
  <2>1. m.tid = NoTransaction
    BY <1>2, FitsKind DEF BeginFails
  <2>2. currentTransactionId = NoTransaction
    BY <2>1 DEF Admitted, ForceId, NoTransaction
  <2> QED BY <1>2, <2>2 DEF BeginFails, Noticed, sqliteVars
<1>3. CASE GoesOn(m) \/ Ends(m) \/ FindsClosed(m)
  BY <1>3 DEF GoesOn, Ends, FindsClosed, Noticed, idVars
<1> QED BY <1>1, <1>2, <1>3, <1>a, RunCases

(* Until the connection is closed, messages and ids are in order. *)
CallInvariant == isOpen => Messages /\ Owners /\ Noticed

LEMMA InitCalls == Init => CallInvariant
<1> SUFFICES ASSUME Init PROVE Messages /\ Owners /\ Noticed
  BY DEF CallInvariant
<1>1. Messages
  BY DEF Init, FfiInit, Messages, OneMessage
<1>2. Owners
  BY DEF Init, FfiInit, Owners, Owner, Begun, InTransaction, NoTransaction
<1>3. Noticed
  BY DEF Init, FfiInit, Noticed
<1> QED BY <1>1, <1>2, <1>3

LEMMA CallsStep ==
  LockInvariant /\ CallInvariant /\ [Next]_vars => CallInvariant'
<1> SUFFICES ASSUME LockInvariant, CallInvariant, [Next]_vars, isOpen'
             PROVE  Messages' /\ Owners' /\ Noticed'
  BY DEF CallInvariant
<1>a. isOpen
  <2>1. ASSUME NEW c \in Callers, Caller(c) PROVE isOpen
    BY <2>1, CallerFrame DEF sqliteVars
  <2>2. ASSUME NEW m \in Message, Run(m) PROVE isOpen
    BY <2>2, RunType DEF LockInvariant, TypeOK
  <2>3. CASE IsolateStep
    BY <2>2, <2>3, IsolateCases
    DEF IsolateStep, RunQueuedHandler, HandleOutside, HandleInTransaction,
        QueueHandler, HandleClose, sqliteVars
  <2>4. CASE UNCHANGED vars
    BY <2>4 DEF vars, ffiVars, sqliteVars
  <2> QED BY <2>1, <2>3, <2>4 DEF Next
<1>b. Messages /\ Owners /\ Noticed
  BY <1>a DEF CallInvariant
<1>1. Messages'
  BY <1>b, MessagesStep
<1>2. ASSUME NEW c \in Callers, Caller(c) PROVE Owners' /\ Noticed'
  <2>1. UNCHANGED <<idVars, sqliteVars>>
    BY <1>2, CallerFrame
  <2> QED BY <1>2, <1>b, <2>1, CallerOwns, OwnersKept
          DEF Noticed, idVars, sqliteVars
<1>3. CASE IsolateStep
  <2>1. PICK m \in Message :
          /\ Fits(m) /\ UNCHANGED dartVars
          /\ \/ /\ Run(m)
                /\ currentTransactionId = NoTransaction \/ Admitted(m)
                /\ \A c \in Callers : c # m.from => answer'[c] = answer[c]
             \/ QueueHandler(m)
             \/ HandleClose(m)
    BY <1>3, <1>b, IsolateTakes
  <2>2. CASE QueueHandler(m)
    BY <1>1, <1>b, <2>1, <2>2
    DEF QueueHandler, Owners, Owner, OwnId, Begun, InTransaction, Noticed,
        idVars, sqliteVars, dartVars
  <2>3. CASE HandleClose(m)
    BY <2>3 DEF HandleClose
  <2>4. CASE /\ Run(m)
             /\ currentTransactionId = NoTransaction \/ Admitted(m)
             /\ \A c \in Callers : c # m.from => answer'[c] = answer[c]
    <3>1. Owners'
      BY <1>b, <2>1, <2>4, OwnersByRun
    <3>2. Noticed'
      BY <1>b, <2>1, <2>4, NoticedByRun
    <3> QED BY <1>1, <3>1, <3>2
  <2> QED BY <2>1, <2>2, <2>3, <2>4
<1>4. CASE UNCHANGED vars
  BY <1>1, <1>4, <1>b
  DEF Owners, Owner, OwnId, Begun, InTransaction, Noticed, vars, ffiVars, idVars,
      sqliteVars, dartVars
<1> QED BY <1>1, <1>2, <1>3, <1>4 DEF Next

LEMMA CallsHold == Spec => []CallInvariant
  BY InitCalls, CallsStep, LockHolds, PTL DEF Spec
-----------------------------------------------------------------------------
(* Who closes the database.                                                *)

Closing(c) ==
  at[c] \in {"forceRollback", "closing", "close"} \/ wanted[c] = "rollback"

(* The flag of the Database object is set for any transaction that _close- *)
(* Database has to roll back.                                              *)
Flag ==
  \A o \in Callers :
    at[o] = "begin" \/ InTransaction(o) => inTransaction[DatabaseOf[o]]

(* Behind a ROLLBACK of close in the queue of the lock there is no BEGIN,  *)
(* and after it none is on its way.                                        *)
LastRollback ==
  /\ \A d \in Databases : \A i, j \in DOMAIN rawLock[d] :
       i < j /\ wanted[rawLock[d][i]] = "rollback" =>
         wanted[rawLock[d][j]] # "begin"
  /\ \A c, o \in Callers :
       at[c] \in {"forceRollback", "closing"} =>
         wanted[o] # "begin" /\ at[o] \notin {"begin", "end"} /\ ~InTransaction(o)

OneCloser ==
  /\ \A c \in Callers : Closing(c) => isClosed[DatabaseOf[c]]
  /\ \A c, e \in Callers : Closing(c) /\ Closing(e) => c = e

CloserInvariant ==
  IF Closes THEN Flag /\ LastRollback /\ OneCloser
            ELSE \A c \in Callers : ~Closing(c)

LEMMA OneDatabaseCloses ==
  ASSUME Closes, NEW c \in Callers, NEW e \in Callers
  PROVE  DatabaseOf[c] = DatabaseOf[e] /\ DatabaseOf[c] \in Databases
  BY ConstantsAssumption

LEMMA InitCloser == Init => CloserInvariant
<1> SUFFICES ASSUME Init PROVE CloserInvariant
  OBVIOUS
<1>1. \A c \in Callers : ~Closing(c)
  BY DEF Init, Closing
<1>2. Flag /\ LastRollback
  BY ConstantsAssumption DEF Init, Flag, LastRollback, InTransaction
<1> QED BY <1>1, <1>2 DEF CloserInvariant, OneCloser

LEMMA FlagKept ==
  ASSUME Flag, NEW c \in Callers, UNCHANGED inTransaction,
         \A e \in Callers : e # c => at'[e] = at[e] /\ on'[e] = on[e],
         at'[c] # "begin", InTransaction(c)' => InTransaction(c) \/ at[c] = "begin"
  PROVE  Flag'
  BY DEF Flag, InTransaction

(* A step after which c is where it may be whoever closes.                 *)
LEMMA CloserKept ==
  ASSUME TypeOK, LockHeld, LockWishes, CloserInvariant, NEW c \in Callers,
         OnlyMoves(c), UNCHANGED isClosed, Closes => Flag',
         Closing(c)' => Closing(c),
         at'[c] \in {"forceRollback", "closing"} =>
           at[c] \in {"forceRollback", "closing"},
         wanted'[c] = "none", at'[c] # "begin",
         at'[c] = "end" \/ InTransaction(c)' => InTransaction(c) \/ at[c] = "begin",
         \/ UNCHANGED rawLock
         \/ Holds(c) /\ Release(DatabaseOf[c])
  PROVE  CloserInvariant'
<1>a. \A e \in Callers : Closing(e)' => Closing(e)
  BY DEF OnlyMoves, Closing
<1>b. \A e \in Callers : wanted'[e] \in {wanted[e], "none"}
  BY DEF OnlyMoves
<1>c. \A e \in Callers : e # c =>
        at'[e] = at[e] /\ (InTransaction(e)' <=> InTransaction(e))
  BY DEF OnlyMoves, InTransaction
<1>1. CASE ~Closes
  BY <1>1, <1>a DEF CloserInvariant
<1>2. CASE Closes
  <2>1. Flag'
    BY <1>2
  <2>2. OneCloser'
    BY <1>2, <1>a DEF CloserInvariant, OneCloser
  <2>3. ASSUME NEW d \in Databases, NEW i \in DOMAIN rawLock'[d],
               NEW j \in DOMAIN rawLock'[d], i < j,
               wanted'[rawLock'[d][i]] = "rollback"
        PROVE  wanted'[rawLock'[d][j]] # "begin"
    <3>1. /\ rawLock[d] \in Seq(Callers)
          /\ \A k \in DOMAIN rawLock[d] : rawLock[d][k] \in Callers
      BY DEF TypeOK
    <3>2. CASE rawLock'[d] = rawLock[d]
      BY <1>2, <1>b, <2>3, <3>1, <3>2 DEF CloserInvariant, LastRollback
    <3>3. CASE rawLock[d] # <<>> /\ rawLock'[d] = Tail(rawLock[d])
      <4>1. /\ DOMAIN rawLock[d] = 1..Len(rawLock[d]) /\ Len(rawLock[d]) \in Nat
            /\ DOMAIN rawLock'[d] = 1..(Len(rawLock[d]) - 1)
            /\ \A k \in DOMAIN rawLock'[d] : rawLock'[d][k] = rawLock[d][k + 1]
        BY <3>1, <3>3, TailFacts
      <4>2. /\ i + 1 \in DOMAIN rawLock[d] /\ j + 1 \in DOMAIN rawLock[d]
            /\ i + 1 < j + 1
        BY <2>3, <4>1
      <4>3. wanted[rawLock[d][i + 1]] = "rollback"
        BY <1>b, <2>3, <3>1, <4>1, <4>2
      <4>4. wanted[rawLock[d][j + 1]] # "begin"
        BY <1>2, <4>2, <4>3 DEF CloserInvariant, LastRollback
      <4> QED BY <1>b, <3>1, <4>1, <4>2, <4>4
    <3>4. Release(DatabaseOf[c]) /\ Holds(c) =>
            \/ rawLock'[d] = rawLock[d]
            \/ rawLock[d] # <<>> /\ rawLock'[d] = Tail(rawLock[d])
      BY DEF Release, LockHeld, TypeOK
    <3> QED BY <3>2, <3>3, <3>4
  <2>4. ASSUME NEW e \in Callers, NEW o \in Callers,
               at'[e] \in {"forceRollback", "closing"}
        PROVE  /\ wanted'[o] # "begin" /\ at'[o] \notin {"begin", "end"}
               /\ ~InTransaction(o)'
    <3>1. at[e] \in {"forceRollback", "closing"}
      BY <1>c, <2>4
    <3>2. wanted[o] # "begin" /\ at[o] \notin {"begin", "end"} /\ ~InTransaction(o)
      BY <1>2, <3>1 DEF CloserInvariant, LastRollback
    <3> QED BY <1>b, <1>c, <3>2
  <2>5. LastRollback'
    BY <2>3, <2>4 DEF LastRollback
  <2> QED BY <1>2, <2>1, <2>2, <2>5 DEF CloserInvariant
<1> QED BY <1>1, <1>2
(* Before the database is closed, nobody closes it. *)
LEMMA NobodyCloses ==
  ASSUME Closes, CloserInvariant, NEW c \in Callers, ~isClosed[DatabaseOf[c]]
  PROVE  \A e \in Callers : ~Closing(e)
  BY OneDatabaseCloses DEF CloserInvariant, OneCloser

(* c, idle, asks for the lock. *)
LEMMA CloserAsks ==
  ASSUME TypeOK, Locks, CloserInvariant, NEW c \in Callers, at[c] = "idle",
         NEW what \in {"begin", "rollback"} \cup PlainCalls, Synchronized(c, what),
         UNCHANGED on,
         what = "begin" => ~isClosed[DatabaseOf[c]],
         IF what = "rollback"
           THEN /\ Closes /\ ~isClosed[DatabaseOf[c]]
                /\ isClosed' = [isClosed EXCEPT ![DatabaseOf[c]] = TRUE]
           ELSE UNCHANGED isClosed
  PROVE  CloserInvariant'
<1> DEFINE d == DatabaseOf[c]
<1>a. d \in Databases /\ rawLock[d] \in Seq(Callers) /\ wanted[c] = "none"
      /\ \A e \in Databases : \A i \in DOMAIN rawLock[e] : rawLock[e][i] \in Callers
  BY ConstantsAssumption DEF TypeOK, Locks, LockWishes
<1>b. what \in PlainCalls => what \notin {"begin", "rollback"}
  BY ConstantsAssumption DEF Statements
<1>c. /\ \A e \in Callers : e # c => at'[e] = at[e] /\ wanted'[e] = wanted[e]
      /\ \/ rawLock[d] = <<>> /\ at'[c] = EntryPlace(what) /\ wanted'[c] = "none"
         \/ at'[c] = "waiting" /\ wanted'[c] = what
      /\ IF what = "begin" /\ at'[c] # "waiting"
           THEN inTransaction' = [inTransaction EXCEPT ![d] = TRUE]
           ELSE UNCHANGED inTransaction
  <2>1. CASE rawLock[d] = <<>> /\ Enter(c, what) /\ UNCHANGED wanted
    <3>1. /\ Goto(c, EntryPlace(what))
          /\ inTransaction' = IF what = "begin"
                                THEN [inTransaction EXCEPT ![DatabaseOf[c]] = TRUE]
                                ELSE inTransaction
      BY <2>1, EnterCases
    <3>2. at'[c] = EntryPlace(what) /\ \A e \in Callers : e # c => at'[e] = at[e]
      BY <3>1 DEF Goto, TypeOK
    <3>3. at'[c] # "waiting"
      BY <3>2 DEF EntryPlace
    <3> QED BY <1>a, <2>1, <3>1, <3>2, <3>3
  <2>2. CASE /\ Goto(c, "waiting") /\ wanted' = [wanted EXCEPT ![c] = what]
             /\ UNCHANGED inTransaction
    BY <2>2 DEF Goto, TypeOK
  <2> QED BY <2>1, <2>2, SynchronizedCases
<1>d. /\ rawLock'[d] = Append(rawLock[d], c)
      /\ \A e \in Databases : e # d => rawLock'[e] = rawLock[e]
  BY <1>a, SynchronizedCases DEF TypeOK
<1>e. /\ DOMAIN rawLock[d] = 1..Len(rawLock[d]) /\ Len(rawLock[d]) \in Nat
      /\ DOMAIN rawLock'[d] = 1..(Len(rawLock[d]) + 1)
      /\ rawLock'[d][Len(rawLock[d]) + 1] = c
      /\ \A i \in DOMAIN rawLock[d] : rawLock'[d][i] = rawLock[d][i]
  BY <1>a, <1>d, AppendFacts
<1>f. \A e \in Callers : e # c => /\ Closing(e)' <=> Closing(e)
                                  /\ InTransaction(e)' <=> InTransaction(e)
  BY <1>c DEF Closing, InTransaction
<1>g. ~InTransaction(c)' /\ (Closing(c)' <=> what = "rollback")
  BY <1>b, <1>c DEF Closing, InTransaction, EntryPlace
<1>1. CASE ~Closes
  BY <1>1, <1>f, <1>g DEF CloserInvariant
<1>2. CASE Closes
  <2>a. \A e \in Callers : DatabaseOf[e] = d
    BY <1>2, OneDatabaseCloses
  <2>b. what \in {"begin", "rollback"} => \A e \in Callers : ~Closing(e)
    BY <1>2, NobodyCloses
  <2>1. Flag'
    <3>1. CASE what = "begin" /\ at'[c] # "waiting"
      <4>1. inTransaction'[d] = TRUE
        BY <1>a, <1>c, <3>1 DEF TypeOK
      <4> QED BY <2>a, <4>1 DEF Flag
    <3>2. CASE ~(what = "begin" /\ at'[c] # "waiting")
      <4>1. at'[c] # "begin" /\ UNCHANGED inTransaction
        BY <1>b, <1>c, <3>2 DEF EntryPlace
      <4> QED BY <1>2, <1>c, <1>g, <4>1, FlagKept DEF CloserInvariant
    <3> QED BY <3>1, <3>2
  <2>2. OneCloser'
    <3>1. CASE what = "rollback"
      <4>1. \A e \in Callers : Closing(e)' => e = c
        BY <1>f, <2>b, <3>1
      <4>2. isClosed'[d] = TRUE
        BY <1>a, <3>1 DEF TypeOK
      <4> QED BY <4>1, <4>2 DEF OneCloser
    <3>2. CASE what # "rollback"
      <4>1. \A e \in Callers : Closing(e)' => Closing(e)
        BY <1>f, <1>g, <3>2
      <4> QED BY <1>2, <3>2, <4>1 DEF CloserInvariant, OneCloser
    <3> QED BY <3>1, <3>2
  <2>3. ASSUME NEW e \in Databases, NEW i \in DOMAIN rawLock'[e],
               NEW j \in DOMAIN rawLock'[e], i < j,
               wanted'[rawLock'[e][i]] = "rollback"
        PROVE  wanted'[rawLock'[e][j]] # "begin"
    <3>1. CASE e # d
      <4>1. /\ rawLock'[e] = rawLock[e] /\ rawLock[e][i] \in Callers
            /\ rawLock[e][j] \in Callers
            /\ rawLock[e][i] # c /\ rawLock[e][j] # c
        BY <1>a, <1>d, <2>3, <3>1 DEF Locks, LockQueue
      <4> QED BY <1>2, <1>c, <2>3, <4>1 DEF CloserInvariant, LastRollback
    <3>2. CASE e = d
      <4>1. i \in DOMAIN rawLock[d] /\ rawLock'[d][i] = rawLock[d][i]
        BY <1>e, <2>3, <3>2
      <4>2. rawLock[d][i] # c /\ rawLock[d][i] \in Callers
        BY <1>a, <4>1 DEF Locks, LockQueue, Holds, InTransaction
      <4>3. wanted[rawLock[d][i]] = "rollback" /\ Closing(rawLock[d][i])
        BY <1>c, <2>3, <3>2, <4>1, <4>2 DEF Closing
      <4>4. what \notin {"begin", "rollback"}
        BY <2>b, <4>2, <4>3
      <4>5. CASE j = Len(rawLock[d]) + 1
        BY <1>c, <1>e, <3>2, <4>4, <4>5
      <4>6. CASE j \in DOMAIN rawLock[d]
        <5>1. wanted[rawLock[d][j]] # "begin"
          BY <1>2, <1>a, <2>3, <4>1, <4>3, <4>6 DEF CloserInvariant, LastRollback
        <5> QED BY <1>a, <1>c, <1>e, <3>2, <4>4, <4>6, <5>1
      <4> QED BY <1>e, <2>3, <3>2, <4>5, <4>6
    <3> QED BY <3>1, <3>2
  <2>4. ASSUME NEW e \in Callers, NEW o \in Callers,
               at'[e] \in {"forceRollback", "closing"}
        PROVE  /\ wanted'[o] # "begin" /\ at'[o] \notin {"begin", "end"}
               /\ ~InTransaction(o)'
    <3>1. CASE e = c
      <4>1. what = "rollback" /\ rawLock[d] = <<>> /\ wanted'[c] = "none"
            /\ at'[c] = "forceRollback"
        BY <1>b, <1>c, <2>4, <3>1 DEF EntryPlace
      <4>2. ~Holds(o) /\ at[o] # "waiting"
        BY <2>a, <4>1 DEF Locks, LockHeld
      <4>3. wanted[o] # "begin"
        BY <4>2 DEF Locks, LockWishes
      <4> QED BY <1>c, <1>f, <1>g, <4>1, <4>2, <4>3 DEF Holds
    <3>2. CASE e # c
      <4>1. at[e] \in {"forceRollback", "closing"} /\ Closing(e)
        BY <1>c, <2>4, <3>2 DEF Closing
      <4>2. what # "begin"
        BY <2>b, <4>1
      <4>3. wanted'[c] # "begin" /\ at'[c] \notin {"begin", "end"}
        BY <1>b, <1>c, <4>2 DEF EntryPlace
      <4> QED BY <1>2, <1>c, <1>f, <1>g, <4>1, <4>3 DEF CloserInvariant, LastRollback
    <3> QED BY <3>1, <3>2
  <2>5. LastRollback'
    BY <2>3, <2>4 DEF LastRollback
  <2> QED BY <1>2, <2>1, <2>2, <2>5 DEF CloserInvariant
<1> QED BY <1>1, <1>2
(* c is given the lock. *)
LEMMA CloserGranted ==
  ASSUME TypeOK, Locks, CloserInvariant, NEW c \in Callers, Granted(c)
  PROVE  CloserInvariant'
<1> DEFINE d == DatabaseOf[c]
<1> DEFINE what == wanted[c]
<1>a. /\ d \in Databases /\ rawLock[d] \in Seq(Callers)
      /\ \A e \in Databases : \A i \in DOMAIN rawLock[e] : rawLock[e][i] \in Callers
  BY ConstantsAssumption DEF TypeOK
<1>g. what \in {"begin", "rollback"} \cup PlainCalls
  BY DEF Locks, LockWishes, Granted
<1>b. what \in PlainCalls => what \notin {"begin", "rollback"}
  BY ConstantsAssumption DEF Statements
<1>c. /\ at[c] = "waiting" /\ at'[c] = EntryPlace(what) /\ wanted'[c] = "none"
      /\ \A e \in Callers : e # c => at'[e] = at[e] /\ wanted'[e] = wanted[e]
      /\ UNCHANGED <<rawLock, isClosed, on>>
      /\ IF what = "begin"
           THEN inTransaction' = [inTransaction EXCEPT ![d] = TRUE]
           ELSE UNCHANGED inTransaction
  <2>1. /\ at[c] = "waiting" /\ Enter(c, wanted[c])
        /\ wanted' = [wanted EXCEPT ![c] = "none"]
        /\ UNCHANGED <<rawLock, isClosed, on>>
    BY DEF Granted
  <2>2. /\ Goto(c, EntryPlace(wanted[c]))
        /\ inTransaction' = IF wanted[c] = "begin"
                              THEN [inTransaction EXCEPT ![DatabaseOf[c]] = TRUE]
                              ELSE inTransaction
    BY <2>1, EnterCases
  <2> QED BY <2>1, <2>2 DEF Goto, TypeOK
<1>d. \A e \in Callers : e # c => /\ Closing(e)' <=> Closing(e)
                                  /\ InTransaction(e)' <=> InTransaction(e)
  BY <1>c DEF Closing, InTransaction
<1>e. ~InTransaction(c)' /\ (Closing(c)' <=> what = "rollback") /\ ~InTransaction(c)
      /\ (Closing(c) <=> what = "rollback")
  BY <1>b, <1>c, <1>g DEF Closing, InTransaction, EntryPlace
<1>f. \A e \in Callers : /\ Closing(e)' <=> Closing(e)
                         /\ wanted'[e] \in {wanted[e], "none"}
  BY <1>c, <1>d, <1>e
<1>1. CASE ~Closes
  BY <1>1, <1>f DEF CloserInvariant
<1>2. CASE Closes
  <2>a. \A e \in Callers : DatabaseOf[e] = d
    BY <1>2, OneDatabaseCloses
  <2>1. Flag'
    <3>1. CASE what = "begin"
      <4>1. inTransaction'[d] = TRUE
        BY <1>a, <1>c, <3>1 DEF TypeOK
      <4> QED BY <2>a, <4>1 DEF Flag
    <3>2. CASE what # "begin"
      <4>1. at'[c] # "begin" /\ UNCHANGED inTransaction
        BY <1>b, <1>c, <3>2 DEF EntryPlace
      <4> QED BY <1>2, <1>c, <1>e, <4>1, FlagKept DEF CloserInvariant
    <3> QED BY <3>1, <3>2
  <2>2. OneCloser'
    BY <1>2, <1>c, <1>f DEF CloserInvariant, OneCloser
  <2>3. \A e \in Databases : \A i, j \in DOMAIN rawLock'[e] :
          i < j /\ wanted'[rawLock'[e][i]] = "rollback" =>
            wanted'[rawLock'[e][j]] # "begin"
    BY <1>2, <1>a, <1>c, <1>f DEF CloserInvariant, LastRollback
  <2>4. ASSUME NEW e \in Callers, NEW o \in Callers,
               at'[e] \in {"forceRollback", "closing"}
        PROVE  /\ wanted'[o] # "begin" /\ at'[o] \notin {"begin", "end"}
               /\ ~InTransaction(o)'
    <3>1. CASE e = c
      <4>1. what = "rollback" /\ at'[c] = "forceRollback"
        BY <1>b, <1>c, <2>4, <3>1 DEF EntryPlace
      <4>2. CASE o = c
        BY <1>c, <1>e, <4>1, <4>2
      <4>3. CASE o # c
        <5>1. Head(rawLock[d]) = c /\ rawLock[d] # <<>>
          BY <1>c DEF Granted, Locks, LockHeld
        <5>2. 1 \in DOMAIN rawLock[d] /\ rawLock[d][1] = c
              /\ \A j \in DOMAIN rawLock[d] : j = 1 \/ 1 < j
          BY <1>a, <5>1, TailFacts
        <5>3. ~Holds(o)
          BY <2>a, <4>3, <5>1 DEF Locks, LockHeld
        <5>4. ASSUME wanted[o] = "begin" PROVE FALSE
          <6>1. at[o] = "waiting"
            BY <5>4 DEF Locks, LockWishes
          <6>2. PICK j \in DOMAIN rawLock[d] : rawLock[d][j] = o
            BY <2>a, <6>1 DEF Locks, LockHeld
          <6>3. 1 < j
            BY <4>3, <5>2, <6>2
          <6> QED BY <1>2, <1>a, <4>1, <5>2, <5>4, <6>2, <6>3
                  DEF CloserInvariant, LastRollback
        <5> QED BY <1>c, <1>d, <4>3, <5>3, <5>4 DEF Holds
      <4> QED BY <4>2, <4>3
    <3>2. CASE e # c
      <4>1. at[e] \in {"forceRollback", "closing"}
        BY <1>c, <2>4, <3>2
      <4>2. what # "begin"
        BY <1>2, <4>1 DEF CloserInvariant, LastRollback
      <4>3. wanted'[c] # "begin" /\ at'[c] \notin {"begin", "end"}
        BY <1>b, <1>c, <4>2 DEF EntryPlace
      <4> QED BY <1>2, <1>c, <1>d, <1>e, <4>1, <4>3 DEF CloserInvariant, LastRollback
    <3> QED BY <3>1, <3>2
  <2>5. LastRollback'
    BY <2>3, <2>4 DEF LastRollback
  <2> QED BY <1>2, <2>1, <2>2, <2>5 DEF CloserInvariant
<1> QED BY <1>1, <1>2

LEMMA CloserStep ==
  LockInvariant /\ CloserInvariant /\ [Next]_vars => CloserInvariant'
<1> SUFFICES ASSUME LockInvariant, CloserInvariant, [Next]_vars
             PROVE  CloserInvariant'
  OBVIOUS
<1>a. TypeOK /\ Locks /\ LockHeld /\ LockWishes
  BY DEF LockInvariant, Locks
<1>b. \A c \in Callers : at[c] # "waiting" => wanted[c] = "none"
  BY <1>a DEF LockWishes
<1>1. ASSUME NEW c \in Callers, CallDatabase(c) PROVE CloserInvariant'
  <2>1. PICK what \in {"begin"} \cup PlainCalls :
               Synchronized(c, what) /\ NotClosed(c, what)
    BY <1>1 DEF CallDatabase
  <2>2. /\ at[c] = "idle" /\ UNCHANGED <<isClosed, on>> /\ what # "rollback"
        /\ what = "begin" => ~isClosed[DatabaseOf[c]]
    BY <1>1, <2>1, ConstantsAssumption DEF CallDatabase, NotClosed, Statements
  <2> QED BY <1>a, <2>1, <2>2, CloserAsks
<1>2. ASSUME NEW c \in Callers, Close(c) PROVE CloserInvariant'
  <2>1. /\ Closes /\ at[c] = "idle" /\ ~isClosed[DatabaseOf[c]]
        /\ isClosed' = [isClosed EXCEPT ![DatabaseOf[c]] = TRUE] /\ UNCHANGED on
    BY <1>2 DEF Close
  <2>2. CASE Synchronized(c, "rollback")
    BY <1>a, <2>1, <2>2, CloserAsks
  <2>3. CASE SendClose(c) /\ UNCHANGED <<inTransaction, rawLock, wanted>>
    <3>1. /\ at'[c] = "close"
          /\ \A e \in Callers : e # c => at'[e] = at[e]
      BY <1>a, <2>3 DEF SendClose, Goto, TypeOK
    <3>2. \A e \in Callers : ~Closing(e)
      BY <2>1, NobodyCloses
    <3>3. \A e \in Callers : wanted'[e] # "rollback"
                            /\ at'[e] \notin {"forceRollback", "closing"}
      BY <2>3, <3>1, <3>2 DEF Closing
    <3>4. \A e \in Callers : Closing(e)' => e = c
      BY <2>3, <3>1, <3>2 DEF Closing
    <3>5. isClosed'[DatabaseOf[c]] = TRUE
      BY <1>a, <2>1, OneDatabaseCloses DEF TypeOK
    <3>6. LastRollback'
      BY <1>a, <2>3, <3>3 DEF LastRollback, TypeOK
    <3>7. Flag'
      BY <2>1, <2>3, <3>1, FlagKept DEF CloserInvariant, InTransaction
    <3> QED BY <2>1, <3>4, <3>5, <3>6, <3>7 DEF CloserInvariant, OneCloser
  <2> QED BY <1>2, <2>2, <2>3 DEF Close
<1>3. ASSUME NEW c \in Callers, EndTransaction(c) PROVE CloserInvariant'
  <2>1. /\ at[c] = "finished" /\ UNCHANGED <<isClosed, wanted, on>>
        /\ \A e \in Callers : e # c => at'[e] = at[e]
        /\ inTransaction' = [inTransaction EXCEPT ![DatabaseOf[c]] = FALSE]
        /\ \/ at'[c] = "idle" /\ Release(DatabaseOf[c])
           \/ at'[c] = "end" /\ UNCHANGED rawLock
    <3>1. CASE transaction[c].closed
      BY <1>3, <1>a, <3>1 DEF EndTransaction, Goto, TypeOK
    <3>2. CASE ~transaction[c].closed
      BY <1>3, <1>a, <3>2 DEF EndTransaction, Goto, TypeOK
    <3> QED BY <3>1, <3>2
  <2>2. /\ OnlyMoves(c) /\ Holds(c) /\ InTransaction(c) /\ ~InTransaction(c)'
        /\ (Closing(c)' => Closing(c)) /\ wanted'[c] = "none"
    BY <1>b, <2>1 DEF OnlyMoves, Holds, InTransaction, Closing
  <2>3. ASSUME Closes PROVE Flag'
    <3> SUFFICES ASSUME NEW o \in Callers, at'[o] = "begin" \/ InTransaction(o)'
                 PROVE  inTransaction'[DatabaseOf[o]]
      BY DEF Flag
    <3>1. o # c /\ (at[o] = "begin" \/ InTransaction(o)) /\ Holds(o)
      BY <2>1, <2>2 DEF InTransaction, Holds
    <3>2. DatabaseOf[o] # DatabaseOf[c]
      BY <1>a, <2>2, <3>1, OneHolder
    <3> QED BY <2>3, <3>2, OneDatabaseCloses
  <2> QED BY <1>a, <2>1, <2>2, <2>3, CloserKept
<1>4. ASSUME NEW c \in Callers, OnlyMoves(c), UNCHANGED <<isClosed, inTransaction>>,
             Closing(c)' => Closing(c),
             at'[c] \in {"forceRollback", "closing"} =>
               at[c] \in {"forceRollback", "closing"},
             wanted'[c] = "none", at'[c] # "begin",
             at'[c] = "end" \/ InTransaction(c)' =>
               InTransaction(c) \/ at[c] = "begin",
             \/ UNCHANGED rawLock
             \/ Holds(c) /\ Release(DatabaseOf[c])
      PROVE  CloserInvariant'
  <2>1. ASSUME Closes PROVE Flag'
    <3>1. InTransaction(c)' => InTransaction(c) \/ at[c] = "begin"
      BY <1>4
    <3> QED BY <1>4, <2>1, <3>1, FlagKept DEF CloserInvariant, OnlyMoves
  <2> QED BY <1>4, <1>a, <2>1, CloserKept
<1>5. ASSUME NEW c \in Callers, NEW o \in Callers, CallOnTransaction(c, o)
      PROVE  CloserInvariant'
  <2>1. /\ at[c] = (IF c = o THEN "callback" ELSE "idle") /\ at'[c] = "txnCall"
        /\ UNCHANGED <<isClosed, inTransaction, rawLock, wanted>>
        /\ on'[c].owner = o
        /\ \A e \in Callers : e # c => at'[e] = at[e] /\ on'[e] = on[e]
    BY <1>5, <1>a DEF CallOnTransaction, Goto, TypeOK
  <2>2. /\ OnlyMoves(c) /\ wanted'[c] = "none" /\ (Closing(c)' => Closing(c))
        /\ InTransaction(c)' => InTransaction(c)
    BY <1>b, <2>1 DEF OnlyMoves, Closing, InTransaction
  <2> QED BY <1>4, <2>1, <2>2
<1>6. ASSUME NEW c \in Callers,
             \/ FinishCallback(c) \/ CallAnswered(c) \/ Ended(c) \/ RolledBack(c)
             \/ InvokeCloseDatabase(c) \/ Closed(c)
      PROVE  CloserInvariant'
  <2>1. /\ UNCHANGED <<isClosed, inTransaction, wanted, on>>
        /\ \A e \in Callers : e # c => at'[e] = at[e]
        /\ \/ UNCHANGED rawLock /\ at[c] = "callback" /\ at'[c] = "finished"
           \/ /\ Release(DatabaseOf[c]) /\ at[c] \in {"statement", "end"}
              /\ at'[c] = "idle"
           \/ /\ Release(DatabaseOf[c]) /\ at[c] = "forceRollback"
              /\ at'[c] = "closing"
           \/ UNCHANGED rawLock /\ at[c] = "closing" /\ at'[c] = "close"
           \/ UNCHANGED rawLock /\ at[c] = "close" /\ at'[c] = "idle"
    BY <1>6, <1>a
    DEF FinishCallback, CallAnswered, Ended, RolledBack, InvokeCloseDatabase,
        Closed, SendClose, Goto, TypeOK
  <2>2. wanted'[c] = "none" /\ at'[c] # "begin" /\ OnlyMoves(c)
    BY <1>b, <2>1 DEF OnlyMoves
  <2>3. /\ Closing(c)' => Closing(c)
        /\ InTransaction(c)' => InTransaction(c)
        /\ UNCHANGED rawLock \/ (Holds(c) /\ Release(DatabaseOf[c]))
    BY <1>b, <2>1 DEF Closing, InTransaction, Holds
  <2> QED BY <1>4, <2>1, <2>2, <2>3
<1>7. ASSUME NEW c \in Callers, Began(c) PROVE CloserInvariant'
  <2>1. /\ UNCHANGED <<isClosed, inTransaction, wanted, on>> /\ at[c] = "begin"
        /\ \A e \in Callers : e # c => at'[e] = at[e]
        /\ \/ UNCHANGED rawLock /\ at'[c] = "callback"
           \/ Release(DatabaseOf[c]) /\ at'[c] = "idle"
    BY <1>7, <1>a DEF Began, Goto, TypeOK
  <2>2. wanted'[c] = "none" /\ OnlyMoves(c) /\ Holds(c) /\ (Closing(c)' => Closing(c))
    BY <1>b, <2>1 DEF OnlyMoves, Holds, Closing
  <2> QED BY <1>4, <2>1, <2>2
<1>8. ASSUME NEW c \in Callers, TransactionCallAnswered(c) PROVE CloserInvariant'
  <2>1. /\ UNCHANGED <<isClosed, inTransaction, rawLock, wanted>>
        /\ at[c] = "txnCall"
        /\ at'[c] = IF on[c].owner = c THEN "callback" ELSE "idle"
        /\ \A e \in Callers : e # c => at'[e] = at[e] /\ on'[e] = on[e]
    BY <1>8, <1>a DEF TransactionCallAnswered, Goto, TypeOK
  <2>2. /\ OnlyMoves(c) /\ wanted'[c] = "none" /\ (Closing(c)' => Closing(c))
        /\ InTransaction(c)' => InTransaction(c)
    BY <1>b, <2>1 DEF OnlyMoves, Closing, InTransaction
  <2> QED BY <1>4, <2>1, <2>2
<1>9. ASSUME NEW c \in Callers, Granted(c) PROVE CloserInvariant'
  BY <1>9, <1>a, CloserGranted
<1>10. CASE UNCHANGED dartVars
  BY <1>10 DEF CloserInvariant, Flag, LastRollback, OneCloser, Closing,
               InTransaction, dartVars
<1> QED BY <1>1, <1>2, <1>3, <1>5, <1>6, <1>7, <1>8, <1>9, <1>10
        DEF Next, Caller, Continue, IsolateStep, vars

LEMMA CloserHolds == Spec => []CloserInvariant
  BY InitCloser, CloserStep, LockHolds, PTL DEF Spec
-----------------------------------------------------------------------------
(* What a caller sends, and what becomes of its transaction.               *)

LEMMA CallerSends ==
  ASSUME LockInvariant, NEW c \in Callers, Caller(c)
  PROVE  \/ UNCHANGED port
         \/ \E n \in Message : n.from = c /\ port' = Append(port, n)
<1>a. TypeOK
  BY DEF LockInvariant
<1>b. ASSUME NEW kind \in Kinds, NEW tid \in Nat \cup {ForceId}, Post(kind, c, tid)
      PROVE  \E n \in Message : n.from = c /\ port' = Append(port, n)
  <2>1. [kind |-> kind, from |-> c, tid |-> tid] \in Message
    BY DEF Message
  <2> QED BY <1>b, <2>1 DEF Post
<1>c. ASSUME NEW what \in {"begin", "rollback"} \cup PlainCalls, Enter(c, what)
      PROVE  \E n \in Message : n.from = c /\ port' = Append(port, n)
  <2>1. port' = Append(port, [kind |-> what, from |-> c, tid |-> EntryId(what)])
    BY <1>c, EnterCases
  <2>2. [kind |-> what, from |-> c, tid |-> EntryId(what)] \in Message
    BY ConstantsAssumption DEF Message, Kinds, Statements, EntryId, NoTransaction
  <2> QED BY <2>1, <2>2
<1>1. CASE CallDatabase(c)
  <2>1. PICK what \in {"begin", "rollback"} \cup PlainCalls :
               Synchronized(c, what)
    BY <1>1 DEF CallDatabase
  <2> QED BY <1>c, <2>1, SynchronizedCases
<1>2. ASSUME NEW o \in Callers, CallOnTransaction(c, o)
      PROVE  \E n \in Message : n.from = c /\ port' = Append(port, n)
  <2>1. PICK kind \in TransactionCalls : Post(kind, c, transaction[o].id)
    BY <1>2 DEF CallOnTransaction
  <2>2. kind \in Kinds /\ transaction[o].id \in Nat \cup {ForceId}
    BY <1>a, ConstantsAssumption DEF Kinds, TypeOK
  <2> QED BY <1>b, <2>1, <2>2
<1>3. CASE FinishCallback(c)
  BY <1>3 DEF FinishCallback, ffiVars
<1>4. CASE Close(c)
  <2>1. CASE Synchronized(c, "rollback")
    BY <1>c, <2>1, SynchronizedCases
  <2>2. CASE SendClose(c)
    BY <1>b, <2>2 DEF SendClose, Kinds, NoTransaction
  <2> QED BY <1>4, <2>1, <2>2 DEF Close
<1>5. CASE Granted(c)
  <2>1. wanted[c] \in {"begin", "rollback"} \cup PlainCalls /\ Enter(c, wanted[c])
    BY <1>5 DEF Granted, LockInvariant, LockWishes
  <2> QED BY <1>c, <2>1
<1>6. CASE CallAnswered(c) \/ Ended(c) \/ RolledBack(c) \/ Closed(c) \/ Began(c)
           \/ TransactionCallAnswered(c)
  BY <1>6 DEF CallAnswered, Ended, RolledBack, Closed, Began, TransactionCallAnswered
<1>7. CASE EndTransaction(c)
  <2>1. CASE transaction[c].closed
    BY <1>7, <2>1 DEF EndTransaction, ffiVars
  <2>2. CASE ~transaction[c].closed
    <3>1. PICK kind \in {"commit", "rollback"} : Post(kind, c, transaction[c].id)
      BY <1>7, <2>2 DEF EndTransaction
    <3>2. kind \in Kinds /\ transaction[c].id \in Nat \cup {ForceId}
      BY <1>a DEF Kinds, TypeOK
    <3> QED BY <1>b, <3>1, <3>2
  <2> QED BY <2>1, <2>2
<1>8. CASE InvokeCloseDatabase(c)
  BY <1>b, <1>8 DEF InvokeCloseDatabase, SendClose, Kinds, NoTransaction
<1> QED BY <1>1, <1>2, <1>3, <1>4, <1>5, <1>6, <1>7, <1>8 DEF Caller, Continue

(* When close is sent, no transaction is begun or about to be. *)
LEMMA ClosePosted ==
  ASSUME LockInvariant, Closes, CloserInvariant, NEW c \in Callers, Caller(c),
         at'[c] = "close"
  PROVE  \A o \in Callers : at[o] # "begin" /\ ~InTransaction(o)
<1>a. TypeOK
  BY DEF LockInvariant
<1>b. ASSUME NEW place, Goto(c, place), place # "close" PROVE FALSE
  BY <1>a, <1>b DEF Goto, TypeOK
<1>c. ASSUME NEW what, Enter(c, what) PROVE FALSE
  <2>1. Goto(c, EntryPlace(what))
    BY <1>c, EnterCases
  <2> QED BY <1>b, <2>1 DEF EntryPlace
<1>d. ASSUME NEW what, Synchronized(c, what) PROVE FALSE
  BY <1>b, <1>c, <1>d, SynchronizedCases
<1>1. CASE Close(c)
  <2>1. ~inTransaction[DatabaseOf[c]]
    BY <1>1, <1>d DEF Close
  <2> QED BY <2>1, OneDatabaseCloses DEF CloserInvariant, Flag
<1>2. CASE InvokeCloseDatabase(c)
  <2>1. at[c] = "closing"
    BY <1>2 DEF InvokeCloseDatabase
  <2> QED BY <2>1 DEF CloserInvariant, LastRollback
<1>3. CASE CallDatabase(c) \/ Granted(c)
  BY <1>3, <1>c, <1>d DEF CallDatabase, Granted
<1>4. CASE \/ FinishCallback(c) \/ CallAnswered(c) \/ Ended(c) \/ RolledBack(c)
           \/ Closed(c) \/ Began(c) \/ EndTransaction(c)
           \/ \E o \in Callers : CallOnTransaction(c, o)
  BY <1>4, <1>b
  DEF FinishCallback, CallAnswered, Ended, RolledBack, Closed, Began,
      EndTransaction, CallOnTransaction
<1>5. CASE TransactionCallAnswered(c)
  BY <1>5, <1>b DEF TransactionCallAnswered
<1> QED BY <1>1, <1>2, <1>3, <1>4, <1>5 DEF Caller, Continue

(* The callback starts with the id BEGIN was answered. *)
LEMMA BegunMoves ==
  ASSUME LockInvariant, NEW c \in Callers, Caller(c), Begun(c)
  PROVE  /\ InTransaction(c)' /\ ~transaction'[c].closed
         /\ transaction'[c].id = answer[c].id
<1>1. at[c] = "begin" /\ answer[c].ok
  BY DEF Begun
<1>2. Began(c)
  BY <1>1
  DEF Caller, Continue, CallDatabase, CallOnTransaction, FinishCallback, Close,
      Granted, CallAnswered, TransactionCallAnswered, EndTransaction, Ended,
      RolledBack, InvokeCloseDatabase, Closed
<1>3. at'[c] = "callback" /\ transaction'[c] = [id |-> answer[c].id, closed |-> FALSE]
  BY <1>1, <1>2 DEF LockInvariant, TypeOK, Began, Goto
<1> QED BY <1>3 DEF InTransaction

(* A transaction goes on, is marked closed by an answer that says so, or   *)
(* is ended by COMMIT or ROLLBACK.                                         *)
LEMMA TransactionMoves ==
  ASSUME LockInvariant, NEW c \in Callers, Caller(c), NEW o \in Callers,
         InTransaction(o), ~transaction[o].closed
  PROVE  /\ transaction'[o].id = transaction[o].id
         /\ \/ InTransaction(o)' /\ ~transaction'[o].closed
            \/ InTransaction(o)' /\ c \in InFlightOn(o) /\ answer[c].closed
            \/ /\ o = c /\ UNCHANGED answer
               /\ at'[c] = "end" /\ \E kind \in {"commit", "rollback"} :
                    port' = Append(port, [kind |-> kind, from |-> c,
                                          tid |-> transaction[c].id])
<1>a. TypeOK
  BY DEF LockInvariant
<1>b. at[o] \in {"callback", "finished", "txnCall"}
  BY DEF InTransaction
<1>1. ASSUME NEW p \in Callers, CallOnTransaction(c, p)
      PROVE  InTransaction(o)' /\ UNCHANGED transaction
  <2>1. /\ at[c] = (IF c = p THEN "callback" ELSE "idle") /\ at'[c] = "txnCall"
        /\ on'[c].owner = p /\ UNCHANGED transaction
        /\ \A e \in Callers : e # c => at'[e] = at[e] /\ on'[e] = on[e]
    BY <1>1, <1>a DEF CallOnTransaction, Goto, TypeOK
  <2> QED BY <2>1 DEF InTransaction
<1>2. CASE FinishCallback(c)
  <2>1. /\ at'[c] = "finished" /\ UNCHANGED <<transaction, on>>
        /\ \A e \in Callers : e # c => at'[e] = at[e]
    BY <1>2, <1>a DEF FinishCallback, Goto, TypeOK
  <2> QED BY <2>1 DEF InTransaction
<1>3. CASE TransactionCallAnswered(c)
  <2>1. /\ at[c] = "txnCall"
        /\ at'[c] = IF on[c].owner = c THEN "callback" ELSE "idle"
        /\ \A e \in Callers : e # c => at'[e] = at[e] /\ on'[e] = on[e]
    BY <1>3, <1>a DEF TransactionCallAnswered, Goto, TypeOK
  <2>2. InTransaction(o)'
    BY <2>1 DEF InTransaction
  <2>3. transaction'[o].id = transaction[o].id
    BY <1>3, <1>a DEF TransactionCallAnswered, TypeOK
  <2>4. transaction'[o].closed => on[c].owner = o /\ answer[c].closed
    BY <1>3, <1>a DEF TransactionCallAnswered, TypeOK
  <2> QED BY <2>1, <2>2, <2>3, <2>4 DEF InFlightOn
<1>4. CASE EndTransaction(c)
  <2>1. /\ at[c] = "finished"
        /\ \A e \in Callers : e # c => /\ at'[e] = at[e]
                                       /\ transaction'[e] = transaction[e]
        /\ UNCHANGED on
    BY <1>4, <1>a DEF EndTransaction, Goto, TypeOK
  <2>2. CASE o = c
    <3>1. UNCHANGED <<answer, transaction>> /\ at'[c] = "end"
      BY <1>4, <1>a, <2>2 DEF EndTransaction, Goto, TypeOK
    <3>2. \E kind \in {"commit", "rollback"} :
            port' = Append(port, [kind |-> kind, from |-> c, tid |-> transaction[c].id])
      BY <1>4, <2>2 DEF EndTransaction, Post
    <3> QED BY <2>2, <3>1, <3>2
  <2>3. CASE o # c
    BY <2>1, <2>3 DEF InTransaction
  <2> QED BY <2>2, <2>3
<1>5. ASSUME o # c,
             \A e \in Callers : e # c => at'[e] = at[e] /\ transaction'[e] = transaction[e],
             UNCHANGED on
      PROVE  InTransaction(o)' /\ transaction'[o] = transaction[o]
  BY <1>5 DEF InTransaction
<1>6. ASSUME NEW what, Enter(c, what) PROVE \A e \in Callers : e # c => at'[e] = at[e]
  <2>1. Goto(c, EntryPlace(what))
    BY <1>6, EnterCases
  <2> QED BY <1>a, <2>1 DEF Goto, TypeOK
<1>7. ASSUME NEW what, Synchronized(c, what)
      PROVE  \A e \in Callers : e # c => at'[e] = at[e]
  <2>1. CASE Goto(c, "waiting")
    BY <1>a, <2>1 DEF Goto, TypeOK
  <2> QED BY <1>6, <1>7, <2>1, SynchronizedCases
<1>8. CASE CallDatabase(c) \/ Close(c) \/ Granted(c)
  <2>1. at[c] \in {"idle", "waiting"} /\ UNCHANGED <<transaction, on>>
    BY <1>8 DEF CallDatabase, Close, Granted
  <2>2. \A e \in Callers : e # c => at'[e] = at[e]
    <3>1. CASE CallDatabase(c) \/ Granted(c)
      BY <1>6, <1>7, <3>1 DEF CallDatabase, Granted
    <3>2. CASE Close(c)
      BY <1>7, <1>a, <3>2 DEF Close, SendClose, Goto, TypeOK
    <3> QED BY <1>8, <3>1, <3>2
  <2> QED BY <1>5, <1>b, <2>1, <2>2
<1>9. CASE CallAnswered(c) \/ Began(c) \/ Ended(c) \/ RolledBack(c)
           \/ InvokeCloseDatabase(c) \/ Closed(c)
  <2>1. /\ at[c] \in {"statement", "begin", "end", "forceRollback", "closing", "close"}
        /\ UNCHANGED on
        /\ \A e \in Callers : e # c => /\ at'[e] = at[e]
                                       /\ transaction'[e] = transaction[e]
    BY <1>9, <1>a DEF CallAnswered, Began, Ended, RolledBack, InvokeCloseDatabase,
                      Closed, SendClose, Goto, TypeOK
  <2> QED BY <1>5, <1>b, <2>1
<1> QED BY <1>1, <1>2, <1>3, <1>4, <1>8, <1>9 DEF Caller, Continue
-----------------------------------------------------------------------------
(* The connection is closed outside of a transaction, if COMMIT does not   *)
(* fail: its failure leaves a transaction that no Database object knows.   *)

(* The current transaction has an owner that will end it, or its COMMIT or *)
(* ROLLBACK is on its way.                                                 *)
Live ==
  isOpen /\ currentTransactionId # NoTransaction =>
    \/ \E o \in Callers : Begun(o) /\ answer[o].id = currentTransactionId
    \/ \E o \in Callers : /\ InTransaction(o) /\ ~transaction[o].closed
                          /\ transaction[o].id = currentTransactionId
    \/ \E i \in DOMAIN port : /\ port[i].kind \in {"commit", "rollback"}
                              /\ port[i].tid = currentTransactionId

(* Ahead of close in the port there is no BEGIN, behind it no COMMIT or    *)
(* ROLLBACK.                                                               *)
CloseLast ==
  \A i \in DOMAIN port : port[i].kind = "close" =>
    /\ \A o \in Callers : ~InTransaction(o) /\ ~Begun(o)
    /\ \A j \in DOMAIN port :
         /\ port[j].kind = "begin" => i < j
         /\ port[j].kind \in {"commit", "rollback"} => j < i

AfterClose ==
  ~isOpen => /\ currentTransactionId = NoTransaction
             /\ \A o \in Callers : ~InTransaction(o) /\ ~Begun(o)

CloseInvariant ==
  Closes /\ "commit" \notin Faults =>
    /\ noTransactionHandlerQueue = <<>>
    /\ Messages /\ Live /\ CloseLast /\ AfterClose

LEMMA InitClose == Init => CloseInvariant
<1> SUFFICES ASSUME Init PROVE CloseInvariant
  OBVIOUS
<1>1. Messages
  BY DEF Init, FfiInit, Messages, OneMessage
<1>2. /\ noTransactionHandlerQueue = <<>> /\ port = <<>> /\ isOpen
      /\ currentTransactionId = NoTransaction
  BY DEF Init, FfiInit
<1> QED BY <1>1, <1>2 DEF CloseInvariant, Live, CloseLast, AfterClose

(* COMMIT or ROLLBACK, when they do not fail, end what there is. *)
LEMMA EndsForSure ==
  ASSUME NEW m \in Message, Run(m), m.kind \in {"commit", "rollback"}, isOpen,
         "commit" \notin Faults
  PROVE  currentTransactionId' = NoTransaction
<1>1. CASE LeaveTransaction(m)
  BY <1>1 DEF LeaveTransaction
<1>2. CASE ~openTx /\ UNCHANGED sqliteVars /\ Throw(m)
  <2>1. CASE currentTransactionId = NoTransaction
    BY <1>2, <2>1, ThrowCases
  <2>2. CASE currentTransactionId # NoTransaction
    <3>1. TransactionClosed(m)
      BY <1>2, <2>2 DEF TransactionClosed, sqliteVars
    <3> QED BY <1>2, <3>1, ThrowCases
  <2> QED BY <2>1, <2>2
<1> QED BY <1>1, <1>2
        DEF Run, HandleBegin, HandleStatement, HandleCommit, HandleRollback,
            Statements

(* With one Database object no handler is ever parked: its lock lets no    *)
(* other call pass while its transaction is active.                        *)
LEMMA NothingParked ==
  ASSUME LockInvariant, Closes, Messages, Live, AfterClose, NEW m \in Message,
         Fits(m), QueueHandler(m)
  PROVE  FALSE
<1> DEFINE p == m.from
<1>a. /\ p \in Callers /\ currentTransactionId # NoTransaction /\ ~Admitted(m)
      /\ m.kind # "close" /\ isOpen /\ port # <<>> /\ m = Head(port)
  BY DEF Message, QueueHandler, AfterClose, NextMessage
<1>b. 1 \in DOMAIN port /\ port[1] = m
  BY <1>a, TailFacts DEF LockInvariant, TypeOK, FfiTypeOK
<1>c. m.tid # currentTransactionId /\ m.tid # ForceId
  BY <1>a DEF Admitted
<1>d. ASSUME NEW c \in Callers, NEW e \in Callers, Holds(c), Holds(e)
      PROVE  c = e
  BY <1>d, OneDatabaseCloses, OneHolder DEF LockInvariant
<1>1. PICK h \in Callers :
        /\ Holds(h)
        /\ at[p] \in {"statement", "begin", "end"} => h = p
        /\ at[p] = "txnCall" => /\ InTransaction(h) /\ m.tid = transaction[h].id
        /\ at[p] \in {"statement", "begin", "end", "txnCall"}
  <2>1. CASE at[p] \in {"statement", "begin", "end"}
    BY <1>a, <2>1 DEF Holds
  <2>2. CASE at[p] = "txnCall"
    <3>1. /\ on[p].owner \in Callers /\ InTransaction(on[p].owner)
          /\ on[p].id = transaction[on[p].owner].id
      BY <1>a, <2>2 DEF LockInvariant, TypeOK, CallsOn
    <3>2. m.tid = on[p].id
      BY <2>2 DEF Fits
    <3> QED BY <2>2, <3>1, <3>2 DEF Holds
  <2>3. at[p] \in {"statement", "begin", "end", "txnCall"}
    BY <1>a, <1>c DEF Fits
  <2> QED BY <2>1, <2>2, <2>3
<1>2. ASSUME NEW o \in Callers, Begun(o) PROVE FALSE
  <2>1. at[o] = "begin" /\ o = h
    BY <1>1, <1>2, <1>d DEF Begun, Holds
  <2>2. o = p
    BY <1>1, <2>1 DEF InTransaction
  <2>3. answer[p] = NoAnswer
    BY DEF Fits
  <2> QED BY <1>2, <2>2, <2>3 DEF Begun, NoAnswer
<1>3. ASSUME NEW o \in Callers, InTransaction(o),
             transaction[o].id = currentTransactionId
      PROVE  FALSE
  <2>1. o = h
    BY <1>1, <1>3, <1>d DEF Holds
  <2>2. CASE at[p] = "txnCall"
    BY <1>1, <1>3, <1>c, <2>1, <2>2
  <2>3. CASE at[p] # "txnCall"
    BY <1>1, <1>3, <2>1, <2>3 DEF InTransaction
  <2> QED BY <2>2, <2>3
<1>4. ASSUME NEW i \in DOMAIN port, port[i].kind \in {"commit", "rollback"},
             port[i].tid = currentTransactionId
      PROVE  FALSE
  <2>1. PICK n \in Message : n = port[i] /\ Fits(n)
    BY SentType DEF Messages, LockInvariant
  <2>2. currentTransactionId \in Nat
    BY DEF LockInvariant, TypeOK, FfiTypeOK
  <2>3. at[n.from] = "end" /\ n.from \in Callers
    BY <1>4, <2>1, <2>2, ConstantsAssumption DEF Fits, ForceId, Statements, Message
  <2>4. n.from = h
    BY <1>1, <1>d, <2>3 DEF Holds
  <2>5. n.from = p
    BY <1>1, <2>3, <2>4 DEF InTransaction
  <2>6. i = 1
    BY <1>b, <2>1, <2>5 DEF Messages, OneMessage
  <2> QED BY <1>4, <1>b, <1>c, <2>6
<1> QED BY <1>2, <1>3, <1>4, <1>a DEF Live

LEMMA LiveByCaller ==
  ASSUME LockInvariant, Messages, Owners, Live, NEW c \in Callers, Caller(c)
  PROVE  Live'
<1> DEFINE cur == currentTransactionId
<1>a. /\ isOpen' = isOpen /\ cur' = cur
  BY CallerFrame DEF sqliteVars, idVars
<1>b. /\ DOMAIN port \subseteq DOMAIN port'
      /\ \A i \in DOMAIN port : port'[i] = port[i]
  <2>1. port \in Seq(Message)
    BY DEF LockInvariant, TypeOK, FfiTypeOK
  <2>2. ASSUME NEW n \in Message, port' = Append(port, n)
        PROVE  /\ DOMAIN port \subseteq DOMAIN port'
               /\ \A i \in DOMAIN port : port'[i] = port[i]
    BY <2>1, <2>2, AppendFacts
  <2> QED BY <2>2, CallerSends
<1>c. OnlySends(c)
  BY CallerOwns
<1> SUFFICES ASSUME isOpen, cur # NoTransaction
             PROVE  \/ \E o \in Callers : Begun(o)' /\ answer'[o].id = cur
                    \/ \E o \in Callers : /\ InTransaction(o)'
                                          /\ ~transaction'[o].closed
                                          /\ transaction'[o].id = cur
                    \/ \E i \in DOMAIN port' :
                         /\ port'[i].kind \in {"commit", "rollback"}
                         /\ port'[i].tid = cur
  BY <1>a DEF Live
<1>1. ASSUME NEW o \in Callers, Begun(o), answer[o].id = cur
      PROVE  \/ Begun(o)' /\ answer'[o].id = cur
             \/ InTransaction(o)' /\ ~transaction'[o].closed /\ transaction'[o].id = cur
  <2>1. CASE o = c
    BY <1>1, <2>1, BegunMoves
  <2>2. CASE o # c
    BY <1>1, <1>c, <2>2 DEF OnlySends, Begun
  <2> QED BY <2>1, <2>2
<1>2. ASSUME NEW o \in Callers, InTransaction(o), ~transaction[o].closed,
             transaction[o].id = cur
      PROVE  \/ InTransaction(o)' /\ ~transaction'[o].closed /\ transaction'[o].id = cur
             \/ \E i \in DOMAIN port' : /\ port'[i].kind \in {"commit", "rollback"}
                                        /\ port'[i].tid = cur
  <2>1. CASE c \in InFlightOn(o) /\ answer[c].closed
    <3>1. at[c] = "txnCall" /\ on[c].owner = o
      BY <2>1 DEF InFlightOn
    <3>2. on[c].id # cur /\ on[c].id = transaction[o].id
      BY <2>1, <3>1 DEF Owners, LockInvariant, CallsOn
    <3> QED BY <1>2, <3>2
  <2>2. ASSUME NEW kind \in {"commit", "rollback"}, o = c,
               port' = Append(port, [kind |-> kind, from |-> c,
                                     tid |-> transaction[c].id])
        PROVE  \E i \in DOMAIN port' : /\ port'[i].kind \in {"commit", "rollback"}
                                       /\ port'[i].tid = cur
    <3>1. port \in Seq(Message)
      BY DEF LockInvariant, TypeOK, FfiTypeOK
    <3>2. [kind |-> kind, from |-> c, tid |-> transaction[c].id] \in Message
      BY DEF LockInvariant, TypeOK, Message, Kinds
    <3>3. /\ Len(port) + 1 \in DOMAIN port'
          /\ port'[Len(port) + 1] = [kind |-> kind, from |-> c,
                                     tid |-> transaction[c].id]
      BY <2>2, <3>1, <3>2, AppendFacts
    <3> QED BY <1>2, <2>2, <3>3
  <2> QED BY <1>2, <2>1, <2>2, TransactionMoves
<1>3. ASSUME NEW i \in DOMAIN port, port[i].kind \in {"commit", "rollback"},
             port[i].tid = cur
      PROVE  \E j \in DOMAIN port' : /\ port'[j].kind \in {"commit", "rollback"}
                                     /\ port'[j].tid = cur
  BY <1>b, <1>3
<1> QED BY <1>1, <1>2, <1>3 DEF Live

LEMMA CloseLastByCaller ==
  ASSUME LockInvariant, Closes, CloserInvariant, CloserInvariant', Messages,
         Messages', CloseLast, NEW c \in Callers, Caller(c)
  PROVE  CloseLast'
<1>a. /\ ~Begun(c)'
      /\ InTransaction(c)' => InTransaction(c) \/ Begun(c)
      /\ at'[c] = "end" => InTransaction(c)
      /\ OnlySends(c)
  BY CallerOwns
<1>b. \A o \in Callers : o # c => /\ InTransaction(o)' => InTransaction(o)
                                  /\ Begun(o)' => Begun(o)
  BY <1>a DEF OnlySends, InTransaction, Begun
<1>c. port \in Seq(Message)
  BY DEF LockInvariant, TypeOK, FfiTypeOK
<1>1. CASE UNCHANGED port
  BY <1>a, <1>b, <1>1 DEF CloseLast
<1>2. ASSUME NEW n \in Message, n.from = c, port' = Append(port, n)
      PROVE  CloseLast'
  <2>a. /\ DOMAIN port = 1..Len(port) /\ Len(port) \in Nat
        /\ DOMAIN port' = 1..(Len(port) + 1) /\ port'[Len(port) + 1] = n
        /\ \A i \in DOMAIN port : port'[i] = port[i]
    BY <1>c, <1>2, AppendFacts
  <2>b. Fits(n)'
    <3>1. PICK k \in DOMAIN port' : port'[k] = n
      BY <2>a
    <3>2. \A i \in DOMAIN port' : Fits(port[i])'
      BY DEF Messages
    <3> QED BY <3>1, <3>2 DEF Fits
  <2>c. /\ n.kind = "close" <=> at'[c] = "close"
        /\ n.kind = "commit" => at'[c] = "end"
        /\ n.kind = "rollback" => at'[c] \in {"end", "forceRollback"}
    BY <1>2, <2>b, ConstantsAssumption DEF Fits, Statements
  <2>1. ASSUME NEW i \in DOMAIN port, port[i].kind = "close"
        PROVE  /\ \A o \in Callers : ~InTransaction(o)' /\ ~Begun(o)'
               /\ n.kind \notin {"commit", "rollback"}
    <3>1. \A o \in Callers : ~InTransaction(o) /\ ~Begun(o)
      BY <2>1 DEF CloseLast
    <3>2. PICK k \in Message : k = port[i]
      BY SentType DEF LockInvariant
    <3>3. k.from \in Callers /\ at[k.from] = "close" /\ k.from # c
      <4>1. Fits(k) /\ k.from \in Callers
        BY <3>2 DEF Messages, Message
      <4>2. k.from # c
        <5>1. port'[i].from = k.from /\ port'[Len(port) + 1].from = c
          BY <1>2, <2>a, <3>2
        <5>2. i # Len(port) + 1
          BY <2>a
        <5> QED BY <2>a, <5>1, <5>2 DEF Messages, OneMessage
      <4> QED BY <2>1, <3>2, <4>1, <4>2, FitsKind
    <3>4. at'[k.from] = "close"
      BY <1>a, <3>3 DEF OnlySends
    <3>5. at'[c] # "forceRollback"
      BY <3>3, <3>4 DEF CloserInvariant, OneCloser, Closing
    <3> QED BY <1>a, <1>b, <2>c, <3>1, <3>5
  <2>2. ASSUME n.kind = "close"
        PROVE  /\ \A o \in Callers : ~InTransaction(o)' /\ ~Begun(o)'
               /\ \A j \in DOMAIN port : port[j].kind # "begin"
    <3>1. \A o \in Callers : at[o] # "begin" /\ ~InTransaction(o)
      BY <2>c, <2>2, ClosePosted
    <3>2. ASSUME NEW j \in DOMAIN port PROVE port[j].kind # "begin"
      <4>1. PICK k \in Message : k = port[j] /\ Fits(k)
        BY SentType DEF LockInvariant, Messages
      <4> QED BY <3>1, <4>1, FitsKind DEF Message
    <3> QED BY <1>a, <1>b, <3>1, <3>2 DEF Begun
  <2>3. ASSUME NEW i \in DOMAIN port', port'[i].kind = "close"
        PROVE  /\ \A o \in Callers : ~InTransaction(o)' /\ ~Begun(o)'
               /\ \A j \in DOMAIN port' :
                    /\ port'[j].kind = "begin" => i < j
                    /\ port'[j].kind \in {"commit", "rollback"} => j < i
    <3>1. CASE i \in DOMAIN port
      BY <2>a, <2>1, <2>3, <3>1 DEF CloseLast
    <3>2. CASE i = Len(port) + 1
      BY <2>a, <2>2, <2>3, <3>2
    <3> QED BY <2>a, <3>1, <3>2
  <2> QED BY <2>3 DEF CloseLast
<1> QED BY <1>1, <1>2, CallerSends

LEMMA AfterCloseByCaller ==
  ASSUME LockInvariant, Messages, AfterClose, NEW c \in Callers, Caller(c)
  PROVE  AfterClose'
<1>1. /\ ~Begun(c)' /\ OnlySends(c)
      /\ InTransaction(c)' => InTransaction(c) \/ Begun(c)
  BY CallerOwns
<1>2. isOpen' = isOpen /\ currentTransactionId' = currentTransactionId
  BY CallerFrame DEF sqliteVars, idVars
<1>3. \A o \in Callers : o # c => /\ InTransaction(o)' => InTransaction(o)
                                  /\ Begun(o)' => Begun(o)
  BY <1>1 DEF OnlySends, InTransaction, Begun
<1> QED BY <1>1, <1>2, <1>3 DEF AfterClose

LEMMA CloseByIsolate ==
  ASSUME LockInvariant, Closes, "commit" \notin Faults, CloseInvariant, IsolateStep
  PROVE  noTransactionHandlerQueue' = <<>> /\ Live' /\ CloseLast' /\ AfterClose'
<1> DEFINE cur == currentTransactionId
<1>a. /\ noTransactionHandlerQueue = <<>> /\ Messages /\ Live /\ CloseLast
      /\ AfterClose /\ port \in Seq(Message) /\ FfiTypeOK
  BY DEF CloseInvariant, LockInvariant, TypeOK, FfiTypeOK
<1>b. PICK m \in Message :
        /\ Fits(m) /\ UNCHANGED dartVars
        /\ port # <<>> /\ m = Head(port) /\ port' = Tail(port)
        /\ \/ /\ Run(m) /\ m.kind # "close" /\ isOpen' = isOpen
              /\ \A c \in Callers : c # m.from => answer'[c] = answer[c]
           \/ HandleClose(m)
  BY <1>a, IsolateTakes, NothingParked
<1>c. /\ DOMAIN port = 1..Len(port) /\ Len(port) \in Nat \ {0}
      /\ DOMAIN port' = 1..(Len(port) - 1) /\ 1 \in DOMAIN port /\ port[1] = m
      /\ \A i \in DOMAIN port' : i + 1 \in DOMAIN port /\ port'[i] = port[i + 1]
      /\ \A i \in DOMAIN port : i = 1 \/ i - 1 \in DOMAIN port'
  BY <1>a, <1>b, TailFacts
<1>d. \A i \in DOMAIN port : i = 1 \/ port'[i - 1] = port[i]
  BY <1>c
<1>e. \A o \in Callers : InTransaction(o)' = InTransaction(o)
  BY <1>b DEF dartVars, InTransaction
<1>f. UNCHANGED <<at, transaction>>
  BY <1>b DEF dartVars
<1>1. noTransactionHandlerQueue' = <<>>
  <2>1. ASSUME NEW n \in Message, QueueHandler(n) PROVE FALSE
    BY <1>a, <1>b, <2>1, NothingParked DEF QueueHandler, NextMessage
  <2>2. ASSUME NEW n \in Message, HandleOutside(n) \/ HandleInTransaction(n) \/ HandleClose(n)
        PROVE  UNCHANGED noTransactionHandlerQueue
    BY <2>2 DEF HandleOutside, HandleInTransaction, HandleClose, queueVars
  <2> QED BY <1>a, <2>1, <2>2, IsolateCases DEF IsolateStep
<1>2. ASSUME m.kind # "begin" PROVE \A o \in Callers : Begun(o)' <=> Begun(o)
  <2>1. at[m.from] # "begin"
    BY <1>2, <1>b, FitsKind
  <2>2. \A o \in Callers : o # m.from => answer'[o] = answer[o]
    <3>1. {noTransactionHandlerQueue[i].from :
             i \in DOMAIN noTransactionHandlerQueue} = {}
      BY <1>a
    <3> QED BY <1>b, <3>1 DEF HandleClose
  <2> QED BY <1>f, <2>1, <2>2 DEF Begun
<1>3. CloseLast'
  <2> SUFFICES ASSUME NEW i \in DOMAIN port', port'[i].kind = "close"
               PROVE  /\ \A o \in Callers : ~InTransaction(o)' /\ ~Begun(o)'
                      /\ \A j \in DOMAIN port' :
                           /\ port'[j].kind = "begin" => i < j
                           /\ port'[j].kind \in {"commit", "rollback"} => j < i
    BY DEF CloseLast
  <2>1. /\ \A o \in Callers : ~InTransaction(o) /\ ~Begun(o)
        /\ \A j \in DOMAIN port :
             /\ port[j].kind = "begin" => i + 1 < j
             /\ port[j].kind \in {"commit", "rollback"} => j < i + 1
    BY <1>a, <1>c DEF CloseLast
  <2>2. m.kind # "begin"
    BY <1>c, <2>1
  <2>3. \A j \in DOMAIN port' :
          /\ port'[j].kind = "begin" => i < j
          /\ port'[j].kind \in {"commit", "rollback"} => j < i
    BY <1>c, <2>1
  <2> QED BY <1>2, <1>e, <2>1, <2>2, <2>3
<1>4. CASE HandleClose(m)
  <2>1. /\ ~isOpen' /\ cur' = cur /\ m.kind = "close"
    BY <1>4 DEF HandleClose, idVars
  <2>2. \A o \in Callers : ~InTransaction(o) /\ ~Begun(o)
    BY <1>a, <1>c, <2>1 DEF CloseLast
  <2>3. cur = NoTransaction
    BY <1>a, <1>c, <2>1, <2>2 DEF Live, CloseLast, AfterClose
  <2> QED BY <1>1, <1>2, <1>3, <1>e, <2>1, <2>2, <2>3 DEF Live, AfterClose
<1>5. CASE /\ Run(m) /\ isOpen' = isOpen
           /\ \A c \in Callers : c # m.from => answer'[c] = answer[c]
  <2>1. Live'
    <3> SUFFICES ASSUME isOpen, cur' # NoTransaction
                 PROVE  \/ \E o \in Callers : Begun(o)' /\ answer'[o].id = cur'
                        \/ \E o \in Callers : /\ InTransaction(o) /\ ~transaction[o].closed
                                              /\ transaction[o].id = cur'
                        \/ \E i \in DOMAIN port' :
                             /\ port'[i].kind \in {"commit", "rollback"}
                             /\ port'[i].tid = cur'
      BY <1>5, <1>e, <1>f DEF Live
    <3>1. CASE Begins(m)
      <4>1. at'[m.from] = "begin" /\ m.from \in Callers
        BY <1>b, <1>f, <3>1, FitsKind DEF Begins, Message
      <4> QED BY <3>1, <4>1 DEF Begins, Begun
    <3>2. CASE GoesOn(m)
      <4>1. cur' = cur /\ m.kind # "begin" /\ at[m.from] # "begin"
        BY <1>b, <3>2, FitsKind DEF GoesOn, idVars
      <4>2. m.kind \notin {"commit", "rollback"}
        BY <1>5, EndsForSure
      <4>3. ASSUME NEW i \in DOMAIN port, port[i].kind \in {"commit", "rollback"},
                   port[i].tid = cur
            PROVE  \E j \in DOMAIN port' : /\ port'[j].kind \in {"commit", "rollback"}
                                           /\ port'[j].tid = cur
        BY <1>c, <1>d, <4>2, <4>3
      <4>4. ASSUME NEW o \in Callers, Begun(o), answer[o].id = cur
            PROVE  Begun(o)' /\ answer'[o].id = cur
        BY <1>2, <1>5, <4>1, <4>4 DEF Begun
      <4> QED BY <1>a, <4>1, <4>3, <4>4 DEF Live
    <3> QED BY <1>5, <1>a, <3>1, <3>2, RunCases DEF BeginFails, Ends, FindsClosed
  <2>2. AfterClose'
    <3> SUFFICES ASSUME ~isOpen
                 PROVE  /\ cur' = NoTransaction
                        /\ \A o \in Callers : ~InTransaction(o) /\ ~Begun(o)'
      BY <1>5, <1>e DEF AfterClose
    <3>1. cur = NoTransaction /\ \A o \in Callers : ~InTransaction(o) /\ ~Begun(o)
      BY <1>a DEF AfterClose
    <3>2. CASE BeginFails(m)
      <4>1. ~answer'[m.from].ok
        BY <3>2 DEF BeginFails
      <4> QED BY <1>5, <1>f, <3>1, <3>2, <4>1 DEF BeginFails, Begun
    <3>3. CASE GoesOn(m) \/ Ends(m)
      BY <1>2, <3>1, <3>3 DEF GoesOn, Ends, idVars
    <3> QED BY <1>5, <1>a, <3>2, <3>3, RunCases DEF Begins, FindsClosed
  <2> QED BY <1>1, <1>3, <2>1, <2>2
<1> QED BY <1>4, <1>5, <1>b

LEMMA CloseStep ==
  /\ LockInvariant /\ CallInvariant /\ CloserInvariant /\ CloserInvariant'
  /\ CloseInvariant /\ [Next]_vars
  => CloseInvariant'
<1> SUFFICES ASSUME LockInvariant, CallInvariant, CloserInvariant, CloserInvariant',
                    CloseInvariant, [Next]_vars, Closes, "commit" \notin Faults
             PROVE  /\ noTransactionHandlerQueue' = <<>> /\ Messages'
                    /\ Live' /\ CloseLast' /\ AfterClose'
  BY DEF CloseInvariant
<1>a. /\ noTransactionHandlerQueue = <<>> /\ Messages /\ Live /\ CloseLast
      /\ AfterClose
  BY DEF CloseInvariant
<1>1. Messages'
  BY <1>a, MessagesStep
<1>2. ASSUME NEW c \in Callers, Caller(c)
      PROVE  noTransactionHandlerQueue' = <<>> /\ Live' /\ CloseLast' /\ AfterClose'
  <2>1. noTransactionHandlerQueue' = <<>> /\ isOpen' = isOpen
    BY <1>2, <1>a, CallerFrame DEF queueVars, sqliteVars
  <2>2. Live'
    <3>1. CASE isOpen
      BY <1>2, <1>a, <3>1, LiveByCaller DEF CallInvariant
    <3>2. CASE ~isOpen
      BY <2>1, <3>2 DEF Live
    <3> QED BY <3>1, <3>2
  <2>3. CloseLast'
    BY <1>1, <1>2, <1>a, CloseLastByCaller
  <2>4. AfterClose'
    BY <1>2, <1>a, AfterCloseByCaller
  <2> QED BY <2>1, <2>2, <2>3, <2>4
<1>3. CASE IsolateStep
  BY <1>1, <1>3, CloseByIsolate
<1>4. CASE UNCHANGED vars
  BY <1>1, <1>4, <1>a
  DEF Live, CloseLast, AfterClose, Begun, InTransaction, vars, ffiVars, queueVars,
      idVars, sqliteVars, dartVars
<1> QED BY <1>1, <1>2, <1>3, <1>4 DEF Next

LEMMA CloseHolds == Spec => []CloseInvariant
  BY InitClose, CloseStep, LockHolds, CallsHold, CloserHolds, PTL DEF Spec

(* Nobody closes the connection but a caller that closes the database. *)
OpenUnlessCloses == Closes \/ isOpen

(* isOpen changes when the isolate takes a close. *)
LEMMA ClosedByClose ==
  ASSUME LockInvariant, CallInvariant, [Next]_vars, isOpen, ~isOpen'
  PROVE  \E m \in Message : Fits(m) /\ HandleClose(m)
<1>1. Messages
  BY DEF CallInvariant
<1>2. IsolateStep
  BY CallerFrame DEF Next, vars, ffiVars, sqliteVars
<1>3. ASSUME NEW m \in Message, QueueHandler(m) PROVE FALSE
  BY <1>3 DEF QueueHandler, sqliteVars
<1> QED BY <1>1, <1>2, <1>3, IsolateTakes

LEMMA NeverClosed == Spec => []OpenUnlessCloses
<1>1. Init => OpenUnlessCloses
  BY DEF Init, FfiInit, OpenUnlessCloses
<1>2. /\ LockInvariant /\ CallInvariant /\ CloserInvariant /\ OpenUnlessCloses
      /\ [Next]_vars
      => OpenUnlessCloses'
  <2> SUFFICES ASSUME LockInvariant, CallInvariant, CloserInvariant, [Next]_vars,
                      ~Closes, isOpen, ~isOpen'
               PROVE  FALSE
    BY DEF OpenUnlessCloses
  <2>1. PICK m \in Message : Fits(m) /\ m.kind = "close"
    BY ClosedByClose DEF HandleClose
  <2>2. m.from \in Callers /\ at[m.from] = "close"
    BY <2>1, FitsKind DEF Message
  <2> QED BY <2>2 DEF CloserInvariant, Closing
<1> QED BY <1>1, <1>2, LockHolds, CallsHold, CloserHolds, PTL DEF Spec
-----------------------------------------------------------------------------
(* What the messages and the lock say together. *)
LEMMA SentByHolder ==
  ASSUME LockInvariant, Messages
  PROVE  \A m \in Sent : InTurn(m)
<1> SUFFICES ASSUME NEW m \in Sent, m.kind # "close"
             PROVE  LET lock == rawLock[DatabaseOf[m.from]] IN
                    /\ lock # <<>>
                    /\ \/ m.from = Head(lock)
                       \/ m.from \in InFlightOn(Head(lock))
  BY DEF InTurn
<1>1. m \in Message /\ Fits(m)
  BY SentType DEF Sent, Messages, LockInvariant
<1>2. m.from \in Callers
  BY <1>1 DEF Message
<1>3. CASE at[m.from] = "txnCall"
  <2>1. /\ on[m.from].owner \in Callers /\ InTransaction(on[m.from].owner)
        /\ DatabaseOf[on[m.from].owner] = DatabaseOf[m.from]
    BY <1>2, <1>3 DEF LockInvariant, TypeOK, CallsOn
  <2>2. m.from \in InFlightOn(on[m.from].owner)
    BY <1>2, <1>3 DEF InFlightOn
  <2> QED BY <2>1, <2>2 DEF LockInvariant, LockHeld, Holds
<1>4. CASE at[m.from] # "txnCall"
  BY <1>1, <1>2, <1>4 DEF Fits, LockInvariant, LockHeld, Holds
<1> QED BY <1>3, <1>4

(* "Each action runs one after the other" (handling_errors.md), with any   *)
(* number of Database objects, callers and calls in flight, whatever       *)
(* SQLite does: what txnSynchronized of a Database object has sent belongs *)
(* to the holder of its _rawLock, as long as the connection is open.       *)
THEOREM OneActionAtATime == Spec => []ActionsDoNotOverlap
<1>1. LockInvariant /\ CallInvariant => ActionsDoNotOverlap
  BY SentByHolder DEF CallInvariant, ActionsDoNotOverlap
<1> QED BY <1>1, LockHolds, CallsHold, PTL

(* The same, open or not: unless a COMMIT failed before the close, which   *)
(* is answered to the calls parked in the isolate, no call outlives it.    *)
THEOREM NoCallOutlivesClose ==
  ASSUME Closes => "commit" \notin Faults
  PROVE  Spec => [](\A m \in Sent : InTurn(m))
<1>1. LockInvariant /\ CallInvariant /\ CloseInvariant /\ OpenUnlessCloses
      => \A m \in Sent : InTurn(m)
  BY SentByHolder DEF CallInvariant, CloseInvariant, OpenUnlessCloses
<1> QED BY <1>1, LockHolds, CallsHold, CloseHolds, NeverClosed, PTL

(* _closeDatabase rolls any pending transaction back before it closes the  *)
(* connection, whatever was asked of the database before the close, if a   *)
(* COMMIT SQLite could do is done: then no transaction at all is open.     *)
THEOREM RolledBackBeforeClose ==
  ASSUME "commit" \notin Faults
  PROVE  Spec => RollbackBeforeClose /\ [][isOpen /\ ~isOpen' => ~openTx]_vars
<1>1. /\ LockInvariant /\ CallInvariant /\ OpenUnlessCloses' /\ CloseInvariant'
      /\ [Next]_vars
      => [isOpen /\ ~isOpen' => ~openTx]_vars
  <2> SUFFICES ASSUME LockInvariant, CallInvariant, OpenUnlessCloses',
                      CloseInvariant', [Next]_vars, isOpen, ~isOpen'
               PROVE  ~openTx
    OBVIOUS
  <2>1. currentTransactionId' = NoTransaction
    BY DEF OpenUnlessCloses, CloseInvariant, AfterClose
  <2>2. currentTransactionId' = currentTransactionId
    BY ClosedByClose DEF HandleClose, idVars
  <2> QED BY <2>1, <2>2 DEF CallInvariant, Noticed
<1>2. [isOpen /\ ~isOpen' => ~openTx]_vars
      => [isOpen /\ ~isOpen' => ~openTx \/ CommitFailed]_vars
  OBVIOUS
<1> QED BY <1>1, <1>2, LockHolds, CallsHold, CloseHolds, NeverClosed, PTL
        DEF Spec, RollbackBeforeClose
-----------------------------------------------------------------------------
(* Database objects and isolate implement a store with one transaction at  *)
(* a time, if a transaction that SQLite rolls back of its own accord is    *)
(* noticed before the next call: a batch that stops at its first error     *)
(* does not look, and a second call in flight may be ahead of the answer.  *)

StoreUse ==
  "autoRollback" \in Faults => ~Overlap /\ "batch" \notin TransactionCalls

(* The current transaction is the one SQLite has open, and what is written *)
(* in it was written under its id.                                         *)
Matching ==
  /\ openTx <=> currentTransactionId # NoTransaction
  /\ writes \subseteq {currentTransactionId}
  /\ ~openTx => writes = {}

(* A call on its way to the isolate is on the current transaction.         *)
CallsOnCurrent ==
  \A c \in Callers :
    at[c] = "txnCall" /\ answer[c] = NoAnswer => on[c].id = currentTransactionId

(* Who believes to be in a transaction is in the current one, or an answer *)
(* that says otherwise is on its way.                                      *)
OwnersCurrent ==
  \A o \in Callers :
    \/ Begun(o)
    \/ InTransaction(o) /\ ~transaction[o].closed
    => \/ OwnId(o) = currentTransactionId
       \/ \E c \in InFlightOn(o) : answer[c].closed

ClosedByFault ==
  "autoRollback" \notin Faults => \A c \in Callers : ~answer[c].closed

Past == \A id \in durable : id <= lastTransactionId

StoreOpen == Matching /\ CallsOnCurrent /\ OwnersCurrent /\ ClosedByFault

StoreClosed == ~openTx /\ writes = {}

StoreInvariant ==
  StoreUse => Past /\ (isOpen => StoreOpen) /\ (~isOpen => StoreClosed)

LEMMA InitStore == Init => StoreInvariant
<1> SUFFICES ASSUME Init PROVE Past /\ isOpen /\ StoreOpen
  BY DEF StoreInvariant
<1>1. Past /\ isOpen /\ Matching
  BY DEF Init, FfiInit, Past, Matching
<1>2. CallsOnCurrent /\ OwnersCurrent
  BY DEF Init, FfiInit, CallsOnCurrent, OwnersCurrent, Begun, InTransaction
<1>3. ClosedByFault
  BY DEF Init, FfiInit, ClosedByFault, NoAnswer
<1> QED BY <1>1, <1>2, <1>3 DEF StoreOpen

(* Who is in a transaction after the step was before it, or c is by now;   *)
(* and c was not answered that it is closed.                               *)
LEMMA OpenBefore ==
  ASSUME LockInvariant, Messages, NEW c \in Callers, Caller(c), NEW o \in Callers,
         InTransaction(o)', ~transaction'[o].closed
  PROVE  \/ o = c /\ Begun(o)
         \/ /\ InTransaction(o) /\ ~transaction[o].closed
            /\ ~(c \in InFlightOn(o) /\ answer[c].closed)
<1>a. TypeOK /\ OnlySends(c) /\ (InTransaction(c)' => InTransaction(c) \/ Begun(c))
  BY CallerOwns DEF LockInvariant
<1>b. InTransaction(o) \/ (o = c /\ Begun(o))
  BY <1>a DEF OnlySends, InTransaction
<1> SUFFICES ASSUME InTransaction(o)
             PROVE  /\ ~transaction[o].closed
                    /\ ~(c \in InFlightOn(o) /\ answer[c].closed)
  BY <1>b
<1>c. at[o] \in {"callback", "finished", "txnCall"}
  BY DEF InTransaction
<1>1. CASE TransactionCallAnswered(c)
  <2>1. at[c] = "txnCall" /\ on[c].owner \in Callers
        /\ on[c].id = transaction[on[c].owner].id
    BY <1>1, <1>a DEF TransactionCallAnswered, LockInvariant, CallsOn, TypeOK
  <2>2. CASE answer[c].closed
    <3>1. transaction' = [transaction EXCEPT ![on[c].owner].closed = TRUE]
      BY <1>1, <2>1, <2>2 DEF TransactionCallAnswered
    <3>2. o # on[c].owner /\ transaction'[o] = transaction[o]
      BY <1>a, <2>1, <3>1 DEF TypeOK
    <3> QED BY <3>2 DEF InFlightOn
  <2>3. CASE ~answer[c].closed
    BY <1>1, <2>3 DEF TransactionCallAnswered
  <2> QED BY <2>2, <2>3
<1>2. CASE EndTransaction(c)
  <2>1. at[c] = "finished" /\ o # c
    <3>1. at[c] = "finished" /\ at'[c] \in {"idle", "end"}
      BY <1>2, <1>a DEF EndTransaction, Goto, TypeOK
    <3> QED BY <3>1 DEF InTransaction
  <2>2. transaction'[o] = transaction[o]
    BY <1>2, <1>a, <2>1 DEF EndTransaction, TypeOK
  <2> QED BY <2>1, <2>2 DEF InFlightOn
<1>3. CASE Began(c) \/ Ended(c)
  <2>1. at[c] \in {"begin", "end"} /\ o # c
    BY <1>3, <1>c DEF Began, Ended
  <2>2. transaction'[o] = transaction[o]
    BY <1>3, <1>a, <2>1 DEF Began, Ended, TypeOK
  <2> QED BY <2>1, <2>2 DEF InFlightOn
<1>4. CASE \/ CallDatabase(c) \/ Close(c) \/ Granted(c) \/ FinishCallback(c)
           \/ CallAnswered(c) \/ RolledBack(c) \/ InvokeCloseDatabase(c) \/ Closed(c)
           \/ \E p \in Callers : CallOnTransaction(c, p)
  <2>1. UNCHANGED transaction /\ at[c] # "txnCall"
    BY <1>4 DEF CallDatabase, Close, Granted, FinishCallback, CallAnswered, RolledBack,
                InvokeCloseDatabase, Closed, CallOnTransaction
  <2> QED BY <2>1 DEF InFlightOn
<1> QED BY <1>1, <1>2, <1>3, <1>4 DEF Caller, Continue

LEMMA CallSent ==
  ASSUME LockInvariant, NEW c \in Callers, Caller(c), at'[c] = "txnCall"
  PROVE  \E o \in Callers : CallOnTransaction(c, o)
<1>a. TypeOK
  BY DEF LockInvariant
<1>b. ASSUME NEW place, Goto(c, place), place # "txnCall" PROVE FALSE
  BY <1>a, <1>b DEF Goto, TypeOK
<1>c. ASSUME NEW what, Enter(c, what) PROVE FALSE
  <2>1. Goto(c, EntryPlace(what))
    BY <1>c, EnterCases
  <2> QED BY <1>b, <2>1 DEF EntryPlace
<1>d. ASSUME NEW what, Synchronized(c, what) PROVE FALSE
  BY <1>b, <1>c, <1>d, SynchronizedCases
<1>1. CASE CallDatabase(c) \/ Granted(c) \/ Close(c)
  BY <1>1, <1>b, <1>c, <1>d DEF CallDatabase, Granted, Close, SendClose
<1>2. CASE \/ FinishCallback(c) \/ CallAnswered(c) \/ Ended(c) \/ RolledBack(c)
           \/ Closed(c) \/ Began(c) \/ EndTransaction(c) \/ InvokeCloseDatabase(c)
  BY <1>2, <1>b
  DEF FinishCallback, CallAnswered, Ended, RolledBack, Closed, Began,
      EndTransaction, InvokeCloseDatabase, SendClose
<1>3. CASE TransactionCallAnswered(c)
  BY <1>3, <1>b DEF TransactionCallAnswered
<1> QED BY <1>1, <1>2, <1>3 DEF Caller, Continue

LEMMA CallerAnswer ==
  ASSUME NEW c \in Callers, Caller(c)
  PROVE  UNCHANGED answer \/ answer' = [answer EXCEPT ![c] = NoAnswer]
<1>1. CASE CallDatabase(c) \/ Granted(c) \/ Close(c)
  <2>1. ASSUME NEW what, Enter(c, what) \/ Synchronized(c, what) PROVE UNCHANGED answer
    BY <2>1, EnterCases, SynchronizedCases DEF ffiVars
  <2> QED BY <1>1, <2>1 DEF CallDatabase, Granted, Close
<1>2. CASE \/ FinishCallback(c) \/ InvokeCloseDatabase(c) \/ EndTransaction(c)
           \/ \E o \in Callers : CallOnTransaction(c, o)
  BY <1>2 DEF FinishCallback, InvokeCloseDatabase, EndTransaction, CallOnTransaction,
              ffiVars
<1>3. CASE \/ CallAnswered(c) \/ Ended(c) \/ RolledBack(c) \/ Closed(c) \/ Began(c)
           \/ TransactionCallAnswered(c)
  BY <1>3 DEF CallAnswered, Ended, RolledBack, Closed, Began,
              TransactionCallAnswered, Answered
<1> QED BY <1>1, <1>2, <1>3 DEF Caller, Continue

LEMMA StoreByCaller ==
  ASSUME LockInvariant, Messages, StoreUse, StoreOpen, NEW c \in Callers, Caller(c)
  PROVE  StoreOpen'
<1> DEFINE cur == currentTransactionId
<1>a. /\ OnlySends(c) /\ ~Begun(c)' /\ UNCHANGED <<idVars, sqliteVars>>
      /\ Owner(c)' => OwnId(c)' = OwnId(c)
  BY CallerOwns, CallerFrame
<1>b. Matching /\ CallsOnCurrent /\ OwnersCurrent /\ ClosedByFault
  BY DEF StoreOpen
<1>c. ASSUME NEW o \in Callers, Begun(o) PROVE OwnId(o) = cur
  <2>1. InFlightOn(o) = {}
    BY <1>c DEF InFlightOn, Begun, InTransaction, LockInvariant, CallsOn
  <2> QED BY <1>b, <1>c, <2>1 DEF OwnersCurrent
<1>d. ASSUME NEW o \in Callers, InTransaction(o)
      PROVE  at[o] # "begin" /\ OwnId(o) = transaction[o].id
  BY <1>d DEF InTransaction, OwnId
<1>1. Matching'
  BY <1>a, <1>b DEF Matching, idVars, sqliteVars
<1>2. CallsOnCurrent'
  <2> SUFFICES ASSUME NEW e \in Callers, at'[e] = "txnCall", answer'[e] = NoAnswer
               PROVE  on'[e].id = cur
    BY <1>a DEF CallsOnCurrent, idVars
  <2>1. CASE e = c
    <3>1. PICK o \in Callers : CallOnTransaction(c, o)
      BY <2>1, CallSent
    <3>2. /\ InTransaction(o) /\ ~transaction[o].closed /\ on'[c].id = transaction[o].id
          /\ Overlap \/ InFlightOn(o) = {}
      BY <3>1 DEF CallOnTransaction, InCallback, InFlightOn, InTransaction,
                  LockInvariant, TypeOK
    <3>3. \A d \in InFlightOn(o) : ~answer[d].closed
      BY <1>b, <3>2 DEF StoreUse, ClosedByFault, InFlightOn
    <3> QED BY <1>b, <1>d, <2>1, <3>2, <3>3 DEF OwnersCurrent
  <2>2. CASE e # c
    BY <1>a, <1>b, <2>2 DEF OnlySends, CallsOnCurrent
  <2> QED BY <2>1, <2>2
<1>3. OwnersCurrent'
  <2> SUFFICES ASSUME NEW o \in Callers,
                      Begun(o)' \/ (InTransaction(o)' /\ ~transaction'[o].closed)
               PROVE  \/ OwnId(o)' = cur
                      \/ \E e \in InFlightOn(o)' : answer'[e].closed
    BY <1>a DEF OwnersCurrent, idVars
  <2>1. CASE Begun(o)'
    <3>1. o # c
      BY <1>a, <2>1
    <3>2. Begun(o) /\ OwnId(o)' = OwnId(o)
      BY <1>a, <2>1, <3>1 DEF OnlySends, Begun, OwnId
    <3> QED BY <1>c, <3>2
  <2>2. CASE InTransaction(o)' /\ ~transaction'[o].closed
    <3>1. CASE o = c /\ Begun(o)
      BY <1>a, <1>c, <2>2, <3>1 DEF Owner
    <3>2. CASE /\ InTransaction(o) /\ ~transaction[o].closed
               /\ ~(c \in InFlightOn(o) /\ answer[c].closed)
      <4>1. transaction'[o].id = transaction[o].id /\ at'[o] # "begin"
        BY <2>2, <3>2, TransactionMoves DEF InTransaction
      <4>2. OwnId(o)' = OwnId(o)
        BY <1>d, <3>2, <4>1 DEF OwnId
      <4>3. ASSUME NEW e \in InFlightOn(o), answer[e].closed
            PROVE  e \in InFlightOn(o)' /\ answer'[e].closed
        <5>1. e # c /\ e \in Callers
          BY <3>2, <4>3 DEF InFlightOn
        <5> QED BY <1>a, <4>3, <5>1 DEF OnlySends, InFlightOn
      <4> QED BY <1>b, <3>2, <4>2, <4>3 DEF OwnersCurrent
    <3> QED BY <2>2, <3>1, <3>2, OpenBefore
  <2> QED BY <2>1, <2>2
<1>4. ClosedByFault'
  <2>1. \A e \in Callers : answer'[e] \in {answer[e], NoAnswer}
    BY CallerAnswer DEF LockInvariant, TypeOK, FfiTypeOK
  <2> QED BY <1>b, <2>1 DEF ClosedByFault, NoAnswer
<1> QED BY <1>1, <1>2, <1>3, <1>4 DEF StoreOpen

(* What a handler may do to the store while the connection is open. *)
StoreGoesOn(m) ==
  /\ UNCHANGED <<currentTransactionId, openTx>>
  /\ ~answer'[m.from].closed /\ (m.kind = "begin" => ~answer'[m.from].ok)
  /\ \/ UNCHANGED <<writes, durable>>
     \/ openTx /\ writes' = {currentTransactionId} /\ UNCHANGED durable
     \/ ~openTx /\ durable' = durable \cup {NoTransaction} /\ UNCHANGED writes

StoreEnds(m) ==
  /\ openTx /\ ~openTx' /\ writes' = {} /\ currentTransactionId' = NoTransaction
  /\ durable' = durable \cup writes \/ UNCHANGED durable
  /\ \/ m.kind \in {"commit", "rollback"} /\ ~answer'[m.from].closed
     \/ /\ m.kind \in Statements /\ answer'[m.from].closed
        /\ "autoRollback" \in Faults

(* A statement runs under the id of the current transaction. *)
LEMMA StatementId ==
  ASSUME LockInvariant, StoreOpen, NEW m \in Message, Fits(m),
         currentTransactionId = NoTransaction \/ Admitted(m), m.kind \in Statements
  PROVE  /\ m.tid = currentTransactionId
         /\ at[m.from] = "txnCall" \/ currentTransactionId = NoTransaction
<1>1. m.from \in Callers
  BY DEF Message
<1>2. CASE at[m.from] = "txnCall"
  BY <1>1, <1>2 DEF StoreOpen, CallsOnCurrent, Fits
<1>3. CASE at[m.from] = "statement"
  BY <1>3 DEF Fits, Admitted, ForceId, NoTransaction
<1> QED BY <1>2, <1>3, FitsKind

LEMMA StoreCases ==
  ASSUME LockInvariant, StoreUse, isOpen, StoreOpen, NEW m \in Message, Fits(m),
         Run(m), currentTransactionId = NoTransaction \/ Admitted(m)
  PROVE  /\ Begins(m) \/ StoreGoesOn(m) \/ StoreEnds(m)
         /\ lastTransactionId' >= lastTransactionId
<1> DEFINE cur == currentTransactionId
<1>a. FfiTypeOK /\ lastTransactionId \in Nat /\ Matching
  BY DEF LockInvariant, TypeOK, FfiTypeOK, StoreOpen
<1>b. ASSUME NEW ok, NEW id, Answer(m, ok, FALSE, id)
      PROVE  /\ ~answer'[m.from].closed
             /\ ~ok => ~answer'[m.from].ok
  <2>1. answer'[m.from] = [ok |-> ok, closed |-> FALSE, id |-> id]
    BY <1>a, <1>b DEF Answer, FfiTypeOK, Message
  <2> QED BY <2>1
<1>c. ASSUME Throw(m), m.kind # "begin", UNCHANGED openTx,
             \/ UNCHANGED <<writes, durable>>
             \/ openTx /\ writes' = {cur} /\ UNCHANGED durable
             \/ ~openTx /\ durable' = durable \cup {NoTransaction} /\ UNCHANGED writes
      PROVE  StoreGoesOn(m)
  <2>1. ~TransactionClosed(m)
    BY <1>a, <1>c DEF TransactionClosed, Matching
  <2> QED BY <1>b, <1>c, <2>1, ThrowCases DEF StoreGoesOn
<1>d. lastTransactionId' >= lastTransactionId
  BY <1>a, RunCases DEF Begins, BeginFails, GoesOn, Ends, FindsClosed, idVars
<1>1. CASE HandleBegin(m)
  <2>1. m.tid = NoTransaction /\ m.kind = "begin"
    BY <1>1, FitsKind DEF HandleBegin
  <2>2. cur = NoTransaction
    BY <2>1 DEF Admitted, ForceId, NoTransaction
  <2>3. CASE Begins(m)
    BY <1>d, <2>3
  <2>4. CASE /\ currentTransactionId' = NoTransaction
             /\ Answer(m, FALSE, FALSE, NoTransaction) /\ UNCHANGED sqliteVars
    BY <1>b, <1>d, <2>2, <2>4 DEF StoreGoesOn, sqliteVars
  <2>5. ASSUME /\ isOpen /\ ~openTx /\ openTx' = TRUE
               /\ currentTransactionId' = lastTransactionId + 1
               /\ Answer(m, TRUE, FALSE, lastTransactionId + 1)
               /\ UNCHANGED <<isOpen, writes, durable, committed>>
        PROVE  Begins(m)
    <3>1. answer'[m.from] = [ok |-> TRUE, closed |-> FALSE, id |-> lastTransactionId + 1]
      BY <1>a, <2>5 DEF Answer, FfiTypeOK, Message
    <3> QED BY <1>1, <2>5, <3>1 DEF Begins, HandleBegin
  <2> QED BY <1>1, <2>3, <2>4, <2>5 DEF HandleBegin
<1>2. CASE HandleStatement(m)
  <2>1. /\ m.kind # "begin" /\ m.kind \in Statements /\ m.tid = cur
        /\ at[m.from] = "txnCall" \/ cur = NoTransaction
    BY <1>2, StatementId DEF HandleStatement, Statements
  <2>2. ASSUME Write(m.tid)
        PROVE  /\ UNCHANGED openTx
               /\ \/ openTx /\ writes' = {cur} /\ UNCHANGED durable
                  \/ /\ ~openTx /\ durable' = durable \cup {NoTransaction}
                     /\ UNCHANGED writes
    <3>1. writes \cup {cur} = {cur}
      BY <1>a DEF Matching
    <3> QED BY <1>a, <2>1, <2>2, <3>1 DEF Write, Matching
  <2>3. CASE /\ Write(m.tid) \/ UNCHANGED sqliteVars
             /\ Answer(m, TRUE, FALSE, NoTransaction) /\ UNCHANGED currentTransactionId
    BY <1>b, <1>d, <2>1, <2>2, <2>3 DEF StoreGoesOn, sqliteVars
  <2>4. CASE Throw(m) /\ (UNCHANGED sqliteVars \/ Write(m.tid))
    BY <1>c, <1>d, <2>1, <2>2, <2>4 DEF sqliteVars
  <2>5. CASE Throw(m) /\ AutoRollback
    <3>1. /\ openTx /\ ~openTx' /\ writes' = {} /\ UNCHANGED durable
          /\ "autoRollback" \in Faults /\ cur # NoTransaction
      BY <1>a, <2>5 DEF AutoRollback, Matching
    <3>2. m.kind # "batch"
      BY <2>1, <3>1 DEF Fits, StoreUse
    <3>3. TransactionClosed(m)
      BY <3>1, <3>2 DEF TransactionClosed
    <3>4. cur' = NoTransaction /\ Answer(m, FALSE, TRUE, NoTransaction)
      BY <2>5, <3>3, ThrowCases
    <3>5. answer'[m.from] = [ok |-> FALSE, closed |-> TRUE, id |-> NoTransaction]
      BY <1>a, <3>4 DEF Answer, FfiTypeOK, Message
    <3>6. answer'[m.from].closed
      BY <3>5
    <3> QED BY <1>d, <2>1, <3>1, <3>4, <3>6 DEF StoreEnds
  <2> QED BY <1>2, <2>3, <2>4, <2>5 DEF HandleStatement
<1>3. CASE /\ m.kind \in {"commit", "rollback"} /\ LeaveTransaction(m)
           /\ durable' = durable \cup writes \/ UNCHANGED durable
  BY <1>3, <1>b, <1>d DEF LeaveTransaction, StoreEnds
<1>4. CASE m.kind \in {"commit", "rollback"} /\ Throw(m) /\ UNCHANGED sqliteVars
  BY <1>4, <1>c, <1>d DEF sqliteVars
<1> QED BY <1>1, <1>2, <1>3, <1>4 DEF Run, HandleCommit, HandleRollback

(* The end of a transaction leaves nobody in it that will not be told so.  *)
LEMMA NobodyLeft ==
  ASSUME LockInvariant, Owners, CloserInvariant, StoreUse, StoreOpen,
         NEW m \in Message, Fits(m), StoreEnds(m), Admitted(m)
  PROVE  /\ \A c \in Callers : at[c] = "txnCall" /\ on[c].id = currentTransactionId =>
                               c = m.from
         /\ \A o \in Callers :
              /\ Begun(o) \/ InTransaction(o)
              /\ OwnId(o) = currentTransactionId
              => m.from \in InFlightOn(o) /\ answer'[m.from].closed
<1> DEFINE cur == currentTransactionId
           p == m.from
<1>a. /\ p \in Callers /\ cur # NoTransaction /\ TypeOK /\ Alone
  BY DEF Message, StoreEnds, StoreOpen, Matching, LockInvariant
<1>b. \A c \in Callers : at[c] = "txnCall" =>
        /\ on[c].owner \in Callers
        /\ InTransaction(on[c].owner) /\ Owner(on[c].owner)
        /\ OwnId(on[c].owner) = on[c].id
  BY OwnedCall
<1>1. CASE at[p] = "end"
  <2>1. m.tid = transaction[p].id
    BY <1>1, <1>a, ConstantsAssumption DEF StoreEnds, Fits, Statements
  <2>2. m.tid = cur
    BY <1>a, <2>1 DEF Admitted, ForceId, TypeOK
  <2>3. Owner(p) /\ OwnId(p) = cur
    BY <1>1, <2>1, <2>2 DEF Owner, OwnId
  <2>4. ~Begun(p) /\ ~InTransaction(p)
    BY <1>1 DEF Begun, InTransaction
  <2>5. \A o \in Callers : Begun(o) \/ InTransaction(o) => OwnId(o) # cur
    BY <1>a, <2>3, <2>4 DEF Owners, Owner
  <2> QED BY <1>b, <2>5
<1>2. CASE at[p] = "forceRollback"
  <2>1. Closes
    BY <1>2, <1>a DEF CloserInvariant, Closing
  <2>2. \A o \in Callers : ~Begun(o) /\ ~InTransaction(o)
    BY <1>2, <1>a, <2>1 DEF CloserInvariant, LastRollback, Begun
  <2> QED BY <1>b, <2>2
<1>3. CASE m.kind \in Statements
  <2>1. at[p] = "txnCall" /\ on[p].id = cur
    BY <1>3, <1>a, StatementId DEF Fits
  <2>2. /\ "autoRollback" \in Faults /\ answer'[p].closed
    BY <1>3 DEF StoreEnds, Statements
  <2>3. \A o \in Callers : Owner(o) /\ OwnId(o) = cur => o = on[p].owner
    BY <1>a, <1>b, <2>1 DEF Owners
  <2>4. \A o \in Callers :
          (Begun(o) \/ InTransaction(o)) /\ OwnId(o) = cur => p \in InFlightOn(o)
    BY <1>a, <2>1, <2>3 DEF Owner, InFlightOn
  <2>5. ASSUME NEW c \in Callers, at[c] = "txnCall", on[c].id = cur
        PROVE  c = p
    <3>1. c \in InFlightOn(on[p].owner) /\ p \in InFlightOn(on[p].owner)
      BY <1>a, <1>b, <2>1, <2>3, <2>5 DEF InFlightOn
    <3> QED BY <1>a, <1>b, <2>1, <2>2, <2>5, <3>1 DEF Alone, StoreUse
  <2> QED BY <2>2, <2>4, <2>5
<1> QED BY <1>1, <1>2, <1>3, FitsKind DEF StoreEnds

LEMMA StoreByRun ==
  ASSUME LockInvariant, Owners, CloserInvariant, StoreUse, isOpen, Past, StoreOpen,
         NEW m \in Message, Fits(m), Run(m), UNCHANGED dartVars,
         currentTransactionId = NoTransaction \/ Admitted(m)
  PROVE  Past' /\ StoreOpen'
<1> DEFINE cur == currentTransactionId
           p == m.from
<1>a. /\ p \in Callers /\ FfiTypeOK /\ lastTransactionId \in Nat /\ cur \in Nat
      /\ Matching /\ CallsOnCurrent /\ OwnersCurrent /\ ClosedByFault
      /\ cur <= lastTransactionId
  BY DEF Message, LockInvariant, TypeOK, FfiTypeOK, StoreOpen, Owners
<1>b. UNCHANGED <<at, on, transaction>>
  BY DEF dartVars
<1>c. /\ \A c \in Callers : c # p => answer'[c] = answer[c]
      /\ answer'[p] # NoAnswer /\ answer[p] = NoAnswer /\ ~NoAnswer.closed
  BY <1>a, RunType DEF Fits, NoAnswer
<1>d. \A o \in Callers :
        /\ InTransaction(o)' <=> InTransaction(o)
        /\ InTransaction(o) => OwnId(o)' = OwnId(o)
        /\ InFlightOn(o)' = InFlightOn(o)
        /\ o # p => (Begun(o)' <=> Begun(o)) /\ OwnId(o)' = OwnId(o)
  BY <1>b, <1>c DEF InTransaction, OwnId, InFlightOn, Begun
<1>e. \A o \in Callers : \A c \in InFlightOn(o) :
        answer[c].closed => c \in InFlightOn(o)' /\ answer'[c].closed
  BY <1>c, <1>d DEF InFlightOn
<1>f. \A c \in Callers : at'[c] = "txnCall" /\ answer'[c] = NoAnswer =>
        /\ c # p /\ at[c] = "txnCall" /\ on'[c] = on[c] /\ on[c].id = cur
        /\ on[c].id # NoTransaction
  <2>1. \A c \in Callers : at[c] = "txnCall" => on[c].id \in 1..lastTransactionId
    BY OwnedCall
  <2> QED BY <1>a, <1>b, <1>c, <2>1 DEF CallsOnCurrent, NoTransaction
<1>g. ASSUME NEW o \in Callers, o # p \/ ~Begun(o)',
             \/ Begun(o)'
             \/ InTransaction(o)' /\ ~transaction'[o].closed
      PROVE  /\ Begun(o) \/ InTransaction(o)
             /\ OwnId(o)' = OwnId(o) /\ OwnId(o) # NoTransaction
             /\ \/ OwnId(o) = cur
                \/ \E c \in InFlightOn(o)' : answer'[c].closed
  <2>1. \/ Begun(o)
        \/ InTransaction(o) /\ ~transaction[o].closed
    BY <1>b, <1>d, <1>g
  <2>2. OwnId(o)' = OwnId(o)
    BY <1>d, <1>g, <2>1
  <2>3. OwnId(o) # NoTransaction
    BY <1>a, <2>1 DEF Owners, Owner, NoTransaction
  <2> QED BY <1>a, <1>e, <2>1, <2>2, <2>3 DEF OwnersCurrent
<1>h. /\ \A id \in durable : id <= lastTransactionId /\ id \in Int
      /\ lastTransactionId' >= lastTransactionId /\ lastTransactionId' \in Nat
  <2>1. \A id \in durable : id <= lastTransactionId /\ id \in Int
    BY <1>a DEF Past, FfiTypeOK, ForceId
  <2>2. lastTransactionId' \in Nat
    BY <1>a, RunType
  <2>3. lastTransactionId' >= lastTransactionId
    BY StoreCases
  <2> QED BY <2>1, <2>2, <2>3
<1>1. CASE Begins(m)
  <2>1. /\ cur = NoTransaction /\ at[p] = "begin" /\ answer'[p].id = cur'
        /\ lastTransactionId' = lastTransactionId + 1 /\ cur' = lastTransactionId'
    BY <1>1, <1>a, FitsKind DEF Begins, Matching
  <2>2. Matching'
    BY <1>1, <1>a, <2>1 DEF Begins, Matching, NoTransaction
  <2>3. CallsOnCurrent'
    BY <1>f, <2>1 DEF CallsOnCurrent
  <2>4. OwnersCurrent'
    <3> SUFFICES ASSUME NEW o \in Callers,
                        \/ Begun(o)'
                        \/ InTransaction(o)' /\ ~transaction'[o].closed
                 PROVE  \/ OwnId(o)' = cur'
                        \/ \E c \in InFlightOn(o)' : answer'[c].closed
      BY DEF OwnersCurrent
    <3>1. CASE o = p
      BY <1>b, <2>1, <3>1 DEF OwnId
    <3>2. CASE o # p
      BY <1>g, <2>1, <3>2
    <3> QED BY <3>1, <3>2
  <2>5. ClosedByFault'
    <3>1. ~answer'[p].closed
      BY <1>1 DEF Begins
    <3> QED BY <1>a, <1>c, <3>1 DEF ClosedByFault
  <2>6. Past'
    <3>1. UNCHANGED durable /\ lastTransactionId' >= lastTransactionId
      BY <1>1, <1>a DEF Begins
    <3> QED BY <1>1, <1>a, <1>h, <3>1 DEF Past
  <2> QED BY <2>2, <2>3, <2>4, <2>5, <2>6 DEF StoreOpen
<1>2. CASE StoreGoesOn(m)
  <2>1. /\ cur' = cur /\ openTx' = openTx /\ ~answer'[p].closed
        /\ at[p] = "begin" => ~answer'[p].ok
    BY <1>2, FitsKind DEF StoreGoesOn
  <2>2. Matching'
    BY <1>2, <1>a DEF StoreGoesOn, Matching
  <2>3. CallsOnCurrent'
    BY <1>f, <2>1 DEF CallsOnCurrent
  <2>4. OwnersCurrent'
    <3>1. ~Begun(p)'
      BY <1>b, <2>1 DEF Begun
    <3> QED BY <1>g, <2>1, <3>1 DEF OwnersCurrent
  <2>5. ClosedByFault'
    BY <1>a, <1>c, <2>1 DEF ClosedByFault
  <2>6. Past'
    <3>1. lastTransactionId' >= lastTransactionId /\ lastTransactionId' \in Nat
      BY <1>h
    <3>2. durable' \subseteq durable \cup {NoTransaction}
      BY <1>2 DEF StoreGoesOn
    <3> QED BY <1>a, <1>h, <3>1, <3>2 DEF Past, NoTransaction
  <2> QED BY <2>2, <2>3, <2>4, <2>5, <2>6 DEF StoreOpen
<1>3. CASE StoreEnds(m)
  <2>1. Admitted(m)
    BY <1>3, <1>a DEF StoreEnds, Matching
  <2>2. /\ \A c \in Callers : at[c] = "txnCall" /\ on[c].id = cur => c = p
        /\ \A o \in Callers :
             (Begun(o) \/ InTransaction(o)) /\ OwnId(o) = cur =>
               p \in InFlightOn(o) /\ answer'[p].closed
    BY <1>3, <2>1, NobodyLeft
  <2>3. Matching'
    BY <1>3 DEF StoreEnds, Matching
  <2>4. CallsOnCurrent'
    BY <1>f, <2>2 DEF CallsOnCurrent
  <2>5. OwnersCurrent'
    <3>1. ~Begun(p)'
      BY <1>3, <1>b, FitsKind, ConstantsAssumption DEF StoreEnds, Begun, Statements
    <3> QED BY <1>d, <1>g, <2>2, <3>1 DEF OwnersCurrent
  <2>6. ClosedByFault'
    BY <1>3, <1>a, <1>c DEF StoreEnds, ClosedByFault
  <2>7. Past'
    <3>1. lastTransactionId' >= lastTransactionId /\ lastTransactionId' \in Nat
      BY <1>h
    <3>2. durable' \subseteq durable \cup {cur}
      BY <1>3, <1>a DEF StoreEnds, Matching
    <3> QED BY <1>a, <1>h, <3>1, <3>2 DEF Past
  <2> QED BY <2>3, <2>4, <2>5, <2>6, <2>7 DEF StoreOpen
<1> QED BY <1>1, <1>2, <1>3, StoreCases

(* On a connection that is closed no handler does anything. *)
LEMMA RunClosed ==
  ASSUME FfiTypeOK, NEW m \in Message, Run(m), ~isOpen, ~openTx
  PROVE  UNCHANGED sqliteVars /\ lastTransactionId' >= lastTransactionId
<1>1. lastTransactionId' >= lastTransactionId
  BY RunCases DEF Begins, BeginFails, GoesOn, Ends, FindsClosed, idVars, FfiTypeOK
<1>2. UNCHANGED sqliteVars
  BY DEF Run, HandleBegin, HandleStatement, HandleCommit, HandleRollback, Write,
         AutoRollback, LeaveTransaction
<1> QED BY <1>1, <1>2

(* A step runs a handler on the open connection, closes it, or leaves the  *)
(* store alone.                                                            *)
LEMMA IsolateOnStore ==
  ASSUME LockInvariant, CallInvariant, StoreUse, StoreInvariant, IsolateStep
  PROVE  \/ /\ isOpen /\ isOpen' /\ UNCHANGED dartVars
            /\ \E m \in Message :
                 /\ Fits(m) /\ Run(m)
                 /\ currentTransactionId = NoTransaction \/ Admitted(m)
         \/ UNCHANGED <<answer, idVars, sqliteVars, dartVars>>
         \/ /\ ~isOpen' /\ StoreClosed' /\ UNCHANGED durable
            /\ lastTransactionId' >= lastTransactionId
<1>a. TypeOK /\ FfiTypeOK
  BY DEF LockInvariant, TypeOK
<1>b. ASSUME NEW m \in Message, HandleClose(m)
      PROVE  /\ ~isOpen' /\ StoreClosed' /\ UNCHANGED durable
             /\ lastTransactionId' >= lastTransactionId
  BY <1>a, <1>b DEF HandleClose, StoreClosed, idVars, FfiTypeOK
<1>1. CASE isOpen
  <2>1. PICK m \in Message :
          /\ Fits(m) /\ UNCHANGED dartVars
          /\ \/ /\ Run(m) /\ isOpen' = isOpen
                /\ currentTransactionId = NoTransaction \/ Admitted(m)
             \/ QueueHandler(m)
             \/ HandleClose(m)
    BY <1>1, IsolateTakes DEF CallInvariant
  <2> QED BY <1>1, <1>b, <2>1 DEF QueueHandler
<1>2. CASE ~isOpen
  <2>1. StoreClosed
    BY <1>2 DEF StoreInvariant
  <2>2. ASSUME NEW m \in Message, Run(m)
        PROVE  /\ ~isOpen' /\ StoreClosed' /\ UNCHANGED durable
               /\ lastTransactionId' >= lastTransactionId
    <3>1. UNCHANGED sqliteVars /\ lastTransactionId' >= lastTransactionId
      BY <1>2, <1>a, <2>1, <2>2, RunClosed DEF StoreClosed
    <3> QED BY <1>2, <2>1, <3>1 DEF StoreClosed, sqliteVars
  <2>3. UNCHANGED dartVars
    BY DEF IsolateStep
  <2> QED BY <1>b, <2>2, <2>3, IsolateCases
          DEF IsolateStep, RunQueuedHandler, HandleOutside, HandleInTransaction,
              QueueHandler
<1> QED BY <1>1, <1>2

LEMMA StoreStep ==
  /\ LockInvariant /\ CallInvariant /\ CloserInvariant /\ StoreInvariant
  /\ [Next]_vars
  => StoreInvariant'
<1> SUFFICES ASSUME LockInvariant, CallInvariant, CloserInvariant, StoreInvariant,
                    [Next]_vars, StoreUse
             PROVE  Past' /\ (isOpen' => StoreOpen') /\ (~isOpen' => StoreClosed')
  BY DEF StoreInvariant
<1>a. /\ Past /\ (isOpen => StoreOpen) /\ (~isOpen => StoreClosed)
      /\ isOpen => Messages /\ Owners
  BY DEF StoreInvariant, CallInvariant
<1>1. ASSUME NEW c \in Callers, Caller(c)
      PROVE  Past' /\ (isOpen' => StoreOpen') /\ (~isOpen' => StoreClosed')
  <2>1. UNCHANGED <<idVars, sqliteVars>>
    BY <1>1, CallerFrame
  <2>2. Past' /\ isOpen' = isOpen /\ (~isOpen' => StoreClosed')
    BY <1>a, <2>1 DEF Past, StoreClosed, idVars, sqliteVars
  <2> QED BY <1>1, <1>a, <2>2, StoreByCaller
<1>2. CASE UNCHANGED <<answer, idVars, sqliteVars, dartVars>>
  BY <1>2, <1>a
  DEF Past, StoreOpen, StoreClosed, Matching, CallsOnCurrent, OwnersCurrent,
      ClosedByFault, Begun, InTransaction, OwnId, InFlightOn, idVars, sqliteVars,
      dartVars
<1>3. CASE /\ ~isOpen' /\ StoreClosed' /\ UNCHANGED durable
           /\ lastTransactionId' >= lastTransactionId
  <2>1. lastTransactionId' \in Nat
    <3>1. CASE IsolateStep
      BY <3>1, IsolateType DEF TypeOK, FfiTypeOK
    <3>2. CASE UNCHANGED idVars
      BY <3>2 DEF LockInvariant, TypeOK, FfiTypeOK, idVars
    <3> QED BY <3>1, <3>2, CallerFrame DEF Next, vars, ffiVars
  <2>2. lastTransactionId \in Nat /\ \A id \in durable : id \in Int
    BY DEF LockInvariant, TypeOK, FfiTypeOK, ForceId
  <2> QED BY <1>3, <1>a, <2>1, <2>2 DEF Past
<1>4. CASE /\ isOpen /\ isOpen' /\ UNCHANGED dartVars
           /\ \E m \in Message :
                /\ Fits(m) /\ Run(m)
                /\ currentTransactionId = NoTransaction \/ Admitted(m)
  BY <1>4, <1>a, StoreByRun
<1>5. CASE IsolateStep
  BY <1>2, <1>3, <1>4, <1>5, IsolateOnStore
<1>6. CASE UNCHANGED vars
  BY <1>2, <1>6 DEF vars, ffiVars
<1> QED BY <1>1, <1>5, <1>6 DEF Next

LEMMA StoreHolds == Spec => []StoreInvariant
  BY InitStore, StoreStep, LockHolds, CallsHold, CloserHolds, PTL DEF Spec

(* Every handler is a step of the store, or none. *)
LEMMA StoreNext ==
  ASSUME LockInvariant, CallInvariant, StoreUse, StoreInvariant, [Next]_vars
  PROVE  [Store!Next]_(Store!vars)
<1> DEFINE cur == currentTransactionId
<1>a. /\ Past /\ (isOpen => Matching) /\ (~isOpen => StoreClosed)
      /\ cur \in Nat /\ lastTransactionId \in Nat
  BY DEF StoreInvariant, StoreOpen, LockInvariant, TypeOK, FfiTypeOK
<1>1. CASE UNCHANGED <<idVars, sqliteVars>>
  BY <1>1 DEF Store!vars, idVars, sqliteVars
<1>2. ASSUME isOpen, NEW m \in Message, Fits(m), Run(m),
             cur = NoTransaction \/ Admitted(m)
      PROVE  [Store!Next]_(Store!vars)
  <2>1. CASE Begins(m)
    <3>1. /\ ~openTx /\ openTx' /\ cur' = lastTransactionId + 1
          /\ UNCHANGED <<writes, durable>>
      BY <2>1 DEF Begins
    <3>2. cur' \in Nat \ {NoTransaction} /\ cur' \notin durable
      BY <1>a, <3>1 DEF Past, NoTransaction
    <3>3. Store!Begin
      BY <3>1, <3>2 DEF Store!Begin
    <3> QED BY <3>3 DEF Store!Next
  <2>2. CASE StoreGoesOn(m)
    <3>1. CASE UNCHANGED <<writes, durable>>
      BY <2>2, <3>1 DEF StoreGoesOn, Store!vars
    <3>2. CASE openTx /\ writes' = {cur} /\ UNCHANGED durable
      <4>1. Store!WriteInTransaction
        BY <1>2, <1>a, <2>2, <3>2 DEF StoreGoesOn, Matching, Store!WriteInTransaction
      <4> QED BY <4>1 DEF Store!Next
    <3>3. CASE /\ ~openTx /\ durable' = durable \cup {NoTransaction}
               /\ UNCHANGED writes
      <4>1. Store!WriteOutside
        BY <2>2, <3>3 DEF StoreGoesOn, Store!WriteOutside
      <4> QED BY <4>1 DEF Store!Next
    <3> QED BY <2>2, <3>1, <3>2, <3>3 DEF StoreGoesOn
  <2>3. CASE StoreEnds(m)
    <3>1. openTx /\ ~openTx' /\ writes' = {} /\ cur # NoTransaction
      BY <1>2, <1>a, <2>3 DEF StoreEnds, Matching
    <3>2. CASE durable' = durable \cup writes
      <4>1. Store!Commit
        BY <3>1, <3>2 DEF Store!Commit
      <4> QED BY <4>1 DEF Store!Next
    <3>3. CASE UNCHANGED durable
      <4>1. Store!Rollback
        BY <3>1, <3>3 DEF Store!Rollback
      <4> QED BY <4>1 DEF Store!Next
    <3> QED BY <2>3, <3>2, <3>3 DEF StoreEnds
  <2> QED BY <1>2, <2>1, <2>2, <2>3, StoreCases DEF StoreInvariant
<1>3. CASE ~isOpen' /\ StoreClosed' /\ UNCHANGED durable
  <2>1. CASE openTx
    <3>1. cur # NoTransaction
      BY <1>a, <2>1 DEF Matching, StoreClosed
    <3>2. Store!Rollback
      BY <1>3, <2>1, <3>1 DEF StoreClosed, Store!Rollback
    <3> QED BY <3>2 DEF Store!Next
  <2>2. CASE ~openTx
    <3>1. writes = {}
      BY <1>a, <2>2 DEF Matching, StoreClosed
    <3> QED BY <1>3, <2>2, <3>1 DEF StoreClosed, Store!vars
  <2> QED BY <2>1, <2>2
<1>4. CASE IsolateStep
  BY <1>1, <1>2, <1>3, <1>4, IsolateOnStore
<1> QED BY <1>1, <1>4, CallerFrame DEF Next, vars, ffiVars

(* Whatever the Database objects, callers and calls in flight, and whether *)
(* BEGIN and COMMIT fail: together with the sqflite isolate they implement *)
(* a store with one transaction at a time, into which nothing is written   *)
(* but what was called on it, and none of which is made durable by         *)
(* anything but its COMMIT.  So do they when SQLite rolls a transaction    *)
(* back of its own accord, if one call at a time is made on a transaction, *)
(* and no batch that stops at its first error: after such a batch nothing  *)
(* looks at autocommit.                                                    *)
THEOREM Implements ==
  ASSUME StoreUse
  PROVE  Spec => ImplementsTransactionStore
<1>1. Init => Store!Init
  BY DEF Init, FfiInit, Store!Init
<1>2. /\ LockInvariant /\ CallInvariant /\ StoreInvariant /\ [Next]_vars
      => [Store!Next]_(Store!vars)
  BY StoreNext
<1> QED BY <1>1, <1>2, LockHolds, CallsHold, StoreHolds, PTL
        DEF Spec, ImplementsTransactionStore, Store!Spec
=============================================================================
