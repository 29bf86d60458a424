------------------------ MODULE DatabaseFactoryProofs ------------------------
(* Theorems about DatabaseFactory, for any number of paths, isolates and   *)
(* opens.                                                                  *)
EXTENDS DatabaseFactory, SequenceTheorems, TLAPS

Handle == [isOpen : BOOLEAN, isClosed : BOOLEAN, id : Nat]
Calls == [goal : Goals, method : Methods, db : Nat, id : Nat, at : Stages]
Connection == [path : Paths, connection : {"new", "open", "closed"}]
Task == [client : Clients, method : Methods, id : Nat]

(* No id, or that of a database of the client's path. *)
Owned(c, id) == id = None \/ (id \in Ids /\ databases[id].path = Path(c))

(* The call a client has sent names one of its Database objects, unless it *)
(* deletes; what is about to be posted closes a database or deletes.       *)
CallFits(c) ==
  /\ op[c].goal # "delete" => op[c].db \in DOMAIN handles[c]
  /\ op[c].goal = "delete" => op[c].db = None
  /\ op[c].at = "posting" => op[c].method # "open"
  /\ op[c].at = "posting" /\ op[c].method = "close" => op[c].id # None
  /\ Owned(c, op[c].id)

(* A task is that of the call its client waits for. *)
TaskFits(t) ==
  /\ Owned(t.client, t.id)
  /\ t.method # "delete" => t.id # None
  /\ At(t.client, t.method, "posted")

(* What makes TypeOK inductive. *)
TypeInvariant ==
  /\ databaseOpenHelper \in [Clients -> Nat]
  /\ handles \in [Clients -> Seq(Handle)]
  /\ op \in [Clients -> {Unlocked} \cup Calls]
  /\ databases \in Seq(Connection)
  /\ tasks \in Seq(Task)
  /\ databaseWorkerPool \in BOOLEAN
  /\ databaseMap \subseteq Ids
  /\ singleInstancesByPath \in [Paths -> Nat]
  /\ \A p \in Paths : singleInstancesByPath[p] # None =>
       /\ singleInstancesByPath[p] \in databaseMap
       /\ databases[singleInstancesByPath[p]].path = p
  /\ \A c \in Clients : databaseOpenHelper[c] \in {None} \cup DOMAIN handles[c]
  /\ \A c \in Clients : \A i \in DOMAIN handles[c] : Owned(c, handles[c][i].id)
  /\ \A c \in Clients : Locked(c) => CallFits(c)
  /\ \A i \in DOMAIN tasks : TaskFits(tasks[i])
  /\ \A i, j \in DOMAIN tasks : tasks[i].client = tasks[j].client => i = j

(* Sequences: what updating, appending to and taking from one does. *)
LEMMA UpdateSeq ==
  ASSUME NEW S, NEW s \in Seq(S), NEW i \in DOMAIN s, NEW e \in S
  PROVE  /\ [s EXCEPT ![i] = e] \in Seq(S)
         /\ DOMAIN [s EXCEPT ![i] = e] = DOMAIN s
         /\ [s EXCEPT ![i] = e][i] = e
         /\ \A j \in DOMAIN s : j # i => [s EXCEPT ![i] = e][j] = s[j]
OBVIOUS

LEMMA AppendSeq ==
  ASSUME NEW S, NEW s \in Seq(S), NEW e \in S
  PROVE  /\ Append(s, e) \in Seq(S)
         /\ Len(s) + 1 \in Nat /\ Len(s) + 1 # 0
         /\ Len(s) + 1 \notin DOMAIN s
         /\ DOMAIN Append(s, e) = DOMAIN s \cup {Len(s) + 1}
         /\ Append(s, e)[Len(s) + 1] = e
         /\ \A j \in DOMAIN s : Append(s, e)[j] = s[j]
OBVIOUS

LEMMA TailSeq ==
  ASSUME NEW S, NEW s \in Seq(S), s # <<>>
  PROVE  /\ Head(s) \in S /\ Tail(s) \in Seq(S)
         /\ 1 \in DOMAIN s /\ Head(s) = s[1]
         /\ \A j \in DOMAIN Tail(s) : /\ j \in Nat /\ j + 1 \in DOMAIN s
                                      /\ j + 1 # 1 /\ Tail(s)[j] = s[j + 1]
OBVIOUS

LEMMA ElementSeq ==
  ASSUME NEW S, NEW s \in Seq(S), NEW i \in DOMAIN s
  PROVE  s[i] \in S /\ i \in Nat /\ i # 0
OBVIOUS

(* Retyping a sequence, element by element. *)
LEMMA RetypeSeq ==
  ASSUME NEW S, NEW T, NEW s \in Seq(S), \A i \in DOMAIN s : s[i] \in T
  PROVE  s \in Seq(T)
<1>1. Len(s) \in Nat /\ s \in [1 .. Len(s) -> T]
  OBVIOUS
<1>. QED
  BY <1>1

(* No call is the absence of one, and what a call is made of.              *)
LEMMA CallRecords ==
  /\ Unlocked \notin Calls
  /\ \A k \in Calls : /\ k.goal \in Goals /\ k.method \in Methods
                      /\ k.db \in Nat /\ k.id \in Nat /\ k.at \in Stages
  /\ \A goal \in Goals, method \in Methods, db \in Nat, id \in Nat :
       /\ Call(goal, method, db, id) \in Calls
       /\ Call(goal, method, db, id).goal = goal
       /\ Call(goal, method, db, id).method = method
       /\ Call(goal, method, db, id).db = db
       /\ Call(goal, method, db, id).id = id
       /\ Call(goal, method, db, id).at = "sent"
<1>1. \A k \in Calls : k.goal # Unlocked.goal
  BY DEF Calls, Unlocked, Goals
<1>2. Unlocked \notin Calls
  BY <1>1
<1>. QED
  BY <1>2 DEF Calls, Call, Stages

(* The invariant implies the types. *)
LEMMA TypesFollow == TypeInvariant => TypeOK
<1>. SUFFICES ASSUME TypeInvariant PROVE TypeOK
  OBVIOUS
<1>1. handles \in [Clients -> Seq([isOpen : BOOLEAN, isClosed : BOOLEAN,
                                   id : {None} \cup Ids])]
  <2>1. ASSUME NEW c \in Clients
        PROVE  handles[c] \in Seq([isOpen : BOOLEAN, isClosed : BOOLEAN,
                                   id : {None} \cup Ids])
    <3>1. handles[c] \in Seq(Handle)
      BY DEF TypeInvariant
    <3>2. ASSUME NEW i \in DOMAIN handles[c]
          PROVE  handles[c][i] \in [isOpen : BOOLEAN, isClosed : BOOLEAN,
                                    id : {None} \cup Ids]
      <4>1. handles[c][i] \in Handle
        BY <3>1, ElementSeq
      <4>2. handles[c][i].id \in {None} \cup Ids
        BY DEF TypeInvariant, Owned
      <4>. QED
        BY <4>1, <4>2 DEF Handle
    <3>. QED
      BY <3>1, <3>2, RetypeSeq
  <2>. QED
    BY <2>1 DEF TypeInvariant
<1>2. tasks \in Seq([client : Clients, method : Methods, id : {None} \cup Ids])
  <2>1. ASSUME NEW i \in DOMAIN tasks
        PROVE  tasks[i] \in [client : Clients, method : Methods, id : {None} \cup Ids]
    <3>1. tasks[i] \in Task
      BY ElementSeq DEF TypeInvariant
    <3>2. tasks[i].id \in {None} \cup Ids
      BY DEF TypeInvariant, TaskFits, Owned
    <3>. QED
      BY <3>1, <3>2 DEF Task
  <2>. QED
    BY <2>1, RetypeSeq DEF TypeInvariant
<1>3. ASSUME NEW c \in Clients, Locked(c)
      PROVE  /\ op[c].goal \in Goals /\ op[c].method \in Methods
             /\ op[c].at \in Stages
             /\ op[c].db \in {None} \cup DOMAIN handles[c]
             /\ op[c].id \in {None} \cup Ids
  <2>1. op[c] \in Calls
    BY <1>3 DEF TypeInvariant, Locked
  <2>2. CallFits(c)
    BY <1>3 DEF TypeInvariant
  <2>. QED
    BY <2>1, <2>2, CallRecords DEF CallFits, Owned
<1>. QED
  BY <1>1, <1>2, <1>3 DEF TypeInvariant, TypeOK, Connection
-----------------------------------------------------------------------------
(* What the Dart side does in a step: the client's operation, Database     *)
(* objects and helper become o, hs and h; the plugin is not touched.       *)
DartAfter(c, o, hs, h) ==
  /\ op' = [op EXCEPT ![c] = o]
  /\ handles' = [handles EXCEPT ![c] = hs]
  /\ databaseOpenHelper' = [databaseOpenHelper EXCEPT ![c] = h]
  /\ UNCHANGED <<databases, mapVars, poolVars>>

(* It may do so between two calls: what it sends is a call that fits.      *)
DartFits(c, o, hs, h) ==
  /\ o \in {Unlocked} \cup Calls
  /\ hs \in Seq(Handle)
  /\ \A i \in DOMAIN hs : Owned(c, hs[i].id)
  /\ h \in Nat /\ h \in {None} \cup DOMAIN hs
  /\ o # Unlocked =>
       /\ o.at = "sent"
       /\ o.goal # "delete" => o.db \in DOMAIN hs
       /\ o.goal = "delete" => o.db = None
       /\ Owned(c, o.id)

LEMMA DartKeepsTypes ==
  ASSUME TypeInvariant, NEW c \in Clients, ~Locked(c) \/ op[c].at = "answered",
         NEW o, NEW hs, NEW h, DartAfter(c, o, hs, h), DartFits(c, o, hs, h)
  PROVE  TypeInvariant'
<1>0. /\ op \in [Clients -> {Unlocked} \cup Calls]
      /\ handles \in [Clients -> Seq(Handle)]
      /\ databaseOpenHelper \in [Clients -> Nat]
  BY DEF TypeInvariant
<1>1. /\ op'[c] = o /\ handles'[c] = hs /\ databaseOpenHelper'[c] = h
      /\ \A d \in Clients : d # c =>
           /\ op'[d] = op[d] /\ handles'[d] = handles[d]
           /\ databaseOpenHelper'[d] = databaseOpenHelper[d]
      /\ op' \in [Clients -> {Unlocked} \cup Calls]
      /\ handles' \in [Clients -> Seq(Handle)]
      /\ databaseOpenHelper' \in [Clients -> Nat]
  BY <1>0 DEF DartAfter, DartFits
<1>2. UNCHANGED <<databases, databaseMap, singleInstancesByPath,
                  databaseWorkerPool, tasks>>
  BY DEF DartAfter, mapVars, poolVars
<1>3. \A d \in Clients : \A id : Owned(d, id)' <=> Owned(d, id)
  BY <1>2 DEF Owned, Path, Ids
<1>4. ASSUME NEW d \in Clients PROVE databaseOpenHelper'[d] \in {None} \cup DOMAIN handles'[d]
  BY <1>1 DEF DartFits, TypeInvariant
<1>5. ASSUME NEW d \in Clients, NEW i \in DOMAIN handles'[d]
      PROVE  Owned(d, handles[d][i].id)'
  <2>1. Owned(d, handles'[d][i].id)
    <3>1. CASE d = c
      BY <1>1, <3>1 DEF DartFits
    <3>2. CASE d # c
      BY <1>1, <3>2 DEF TypeInvariant
    <3>. QED
      BY <3>1, <3>2
  <2>. QED
    BY <1>2, <2>1 DEF Owned, Path, Ids
<1>6. ASSUME NEW d \in Clients, Locked(d)' PROVE CallFits(d)'
  <2>1. CASE d = c
    <3>1. o # Unlocked
      BY <1>1, <1>6, <2>1 DEF Locked
    <3>2. Owned(c, o.id)'
      BY <1>3, <3>1 DEF DartFits
    <3>. QED
      BY <1>1, <2>1, <3>1, <3>2 DEF CallFits, DartFits, Owned
  <2>2. CASE d # c
    <3>1. CallFits(d)
      BY <1>1, <1>6, <2>2 DEF Locked, TypeInvariant
    <3>. QED
      BY <1>1, <1>2, <2>2, <3>1 DEF CallFits, Owned, Path, Ids
  <2>. QED
    BY <2>1, <2>2
<1>7. ASSUME NEW i \in DOMAIN tasks PROVE TaskFits(tasks[i])'
  <2>0. tasks[i] \in Task
    BY ElementSeq DEF TypeInvariant
  <2>1. tasks[i].client \in Clients /\ TaskFits(tasks[i])
    BY <2>0 DEF TypeInvariant, Task
  <2>2. tasks[i].client # c
    BY <2>1 DEF TaskFits, At
  <2>3. At(tasks[i].client, tasks[i].method, "posted")'
    BY <1>1, <1>2, <2>1, <2>2 DEF TaskFits, At, Locked
  <2>. QED
    BY <1>2, <2>1, <2>3 DEF TaskFits, Owned, Path, Ids
<1>. QED
  BY <1>1, <1>2, <1>4, <1>5, <1>6, <1>7 DEF TypeInvariant, Ids

(* Updating one Database object of a client. *)
LEMMA MarkedHandle ==
  ASSUME TypeInvariant, NEW c \in Clients, NEW db \in DOMAIN handles[c],
         NEW e \in Handle, Owned(c, e.id)
  PROVE  LET hs == [handles[c] EXCEPT ![db] = e] IN
         /\ hs \in Seq(Handle) /\ DOMAIN hs = DOMAIN handles[c]
         /\ \A i \in DOMAIN hs : Owned(c, hs[i].id)
         /\ hs[db] = e
         /\ \A i \in DOMAIN hs : i # db => hs[i] = handles[c][i]
         /\ MarkHandle(c, db, e) => handles' = [handles EXCEPT ![c] = hs]
<1>1. handles \in [Clients -> Seq(Handle)]
  BY DEF TypeInvariant
<1>. DEFINE hs == [handles[c] EXCEPT ![db] = e]
<1>2. /\ hs \in Seq(Handle) /\ DOMAIN hs = DOMAIN handles[c]
      /\ hs[db] = e
      /\ \A i \in DOMAIN hs : i # db => hs[i] = handles[c][i]
  BY <1>1, UpdateSeq
<1>3. ASSUME NEW i \in DOMAIN hs PROVE Owned(c, hs[i].id)
  <2>1. CASE i = db
    BY <1>2, <2>1
  <2>2. CASE i # db
    BY <1>2, <2>2 DEF TypeInvariant
  <2>. QED
    BY <2>1, <2>2
<1>4. MarkHandle(c, db, e) => handles' = [handles EXCEPT ![c] = hs]
  BY <1>1 DEF MarkHandle
<1>. QED
  BY <1>2, <1>3, <1>4

(* A client's part of the state that a step leaves as it is.               *)
LEMMA SameFits ==
  ASSUME TypeInvariant, NEW c \in Clients
  PROVE  /\ handles = [handles EXCEPT ![c] = handles[c]]
         /\ databaseOpenHelper = [databaseOpenHelper EXCEPT ![c] = databaseOpenHelper[c]]
         /\ op = [op EXCEPT ![c] = op[c]]
         /\ handles[c] \in Seq(Handle)
         /\ \A i \in DOMAIN handles[c] : Owned(c, handles[c][i].id)
         /\ databaseOpenHelper[c] \in Nat
         /\ databaseOpenHelper[c] \in {None} \cup DOMAIN handles[c]
         /\ None \in Nat /\ Owned(c, None)
BY DEF TypeInvariant, None, Owned

(* The object and the id of the call a client has made. *)
LEMMA CallTyped ==
  ASSUME TypeInvariant, NEW c \in Clients, Locked(c)
  PROVE  /\ op[c] \in Calls /\ op[c].id \in Nat /\ Owned(c, op[c].id)
         /\ op[c].db \in Nat
         /\ op[c].goal # "delete" => op[c].db \in DOMAIN handles[c]
         /\ op[c].goal = "delete" => op[c].db = None
         /\ op[c].goal \in Goals
BY CallRecords DEF TypeInvariant, Locked, CallFits

(* What an application may ask of the factory. *)
LEMMA RequestStep ==
  ASSUME TypeInvariant, NEW c \in Clients, Request(c)
  PROVE  TypeInvariant' /\ ~Locked(c)
<1>1. CASE OpenDatabase(c)
  <2>. DEFINE e == NewHandle
              n == Len(handles[c]) + 1
              hs == Append(handles[c], e)
              o == Call("open", "open", n, None)
  <2>1. e \in Handle /\ e.id = None
    BY DEF NewHandle, Handle, None
  <2>2. /\ hs \in Seq(Handle) /\ n \in Nat /\ n \in DOMAIN hs
        /\ DOMAIN hs = DOMAIN handles[c] \cup {n}
        /\ hs[n] = e /\ \A j \in DOMAIN handles[c] : hs[j] = handles[c][j]
    BY <2>1, SameFits, AppendSeq
  <2>3. \A i \in DOMAIN hs : Owned(c, hs[i].id)
    BY <2>1, <2>2, SameFits
  <2>4. /\ o \in Calls /\ o.goal = "open" /\ o.db = n /\ o.id = None /\ o.at = "sent"
    BY <2>2, CallRecords DEF Goals, Methods, None
  <2>5. DartAfter(c, o, hs, n) /\ ~Locked(c)
    BY <1>1 DEF OpenDatabase, SetHelper, Lock, DartAfter
  <2>6. DartFits(c, o, hs, n)
    BY <2>2, <2>3, <2>4, SameFits DEF DartFits
  <2>. QED
    BY <2>5, <2>6, DartKeepsTypes
<1>2. CASE DeleteDatabase(c)
  <2>. DEFINE o == Call("delete", "delete", None, None)
  <2>1. /\ o \in Calls /\ o.goal = "delete" /\ o.db = None /\ o.id = None /\ o.at = "sent"
    BY CallRecords DEF Goals, Methods, None
  <2>2. DartAfter(c, o, handles[c], None) /\ ~Locked(c)
    BY <1>2, SameFits DEF DeleteDatabase, SetHelper, Lock, DartAfter
  <2>3. DartFits(c, o, handles[c], None)
    BY <2>1, SameFits DEF DartFits
  <2>. QED
    BY <2>2, <2>3, DartKeepsTypes
<1>3. ASSUME NEW db \in DOMAIN handles[c], CloseDatabase(c, db)
      PROVE  TypeInvariant' /\ ~Locked(c)
  <2>. DEFINE handle == handles[c][db]
              e == [handle EXCEPT !.isClosed = TRUE]
              hs == [handles[c] EXCEPT ![db] = e]
              o == Call("close", "close", db, handle.id)
  <2>1. handle \in Handle /\ db \in Nat /\ Owned(c, handle.id)
    BY SameFits, ElementSeq
  <2>2. e \in Handle /\ e.id = handle.id /\ handle.id \in Nat
    BY <2>1 DEF Handle
  <2>3. /\ hs \in Seq(Handle) /\ DOMAIN hs = DOMAIN handles[c]
        /\ \A i \in DOMAIN hs : Owned(c, hs[i].id)
        /\ MarkHandle(c, db, e) => handles' = [handles EXCEPT ![c] = hs]
    BY <2>1, <2>2, MarkedHandle
  <2>4. CASE handle.isOpen
    <3>1. /\ o \in Calls /\ o.goal = "close" /\ o.db = db /\ o.id = handle.id
          /\ o.at = "sent"
      BY <2>1, <2>2, CallRecords DEF Goals, Methods
    <3>2. DartAfter(c, o, hs, databaseOpenHelper[c]) /\ ~Locked(c)
      BY <1>3, <2>3, <2>4, SameFits DEF CloseDatabase, Lock, DartAfter
    <3>3. DartFits(c, o, hs, databaseOpenHelper[c])
      BY <2>1, <2>3, <3>1, SameFits DEF DartFits
    <3>. QED
      BY <3>2, <3>3, DartKeepsTypes
  <2>5. CASE ~handle.isOpen
    <3>1. ~Locked(c) /\ op[c] = Unlocked
      BY <1>3, <2>5 DEF CloseDatabase, Locked
    <3>2. DartAfter(c, Unlocked, handles[c], None)
      BY <1>3, <2>5, <3>1, SameFits DEF CloseDatabase, SetHelper, DartAfter
    <3>3. DartFits(c, Unlocked, handles[c], None)
      BY SameFits DEF DartFits
    <3>. QED
      BY <3>1, <3>2, <3>3, DartKeepsTypes
  <2>. QED
    BY <2>4, <2>5
<1>. QED
  BY <1>1, <1>2, <1>3 DEF Request

(* Sending the next call, or giving up the lock. *)
LEMMA SentFits ==
  ASSUME TypeInvariant, NEW c \in Clients, Locked(c), op[c].goal # "delete",
         NEW goal \in Goals \ {"delete"}, NEW method \in Methods,
         NEW id \in Nat, Owned(c, id),
         NEW hs \in Seq(Handle), DOMAIN hs = DOMAIN handles[c],
         \A i \in DOMAIN hs : Owned(c, hs[i].id),
         NEW h \in {None, databaseOpenHelper[c]}
  PROVE  /\ DartFits(c, Call(goal, method, op[c].db, id), hs, h)
         /\ DartFits(c, Unlocked, hs, h)
<1>. DEFINE o == Call(goal, method, op[c].db, id)
<1>1. op[c].db \in DOMAIN handles[c] /\ op[c].db \in Nat
  BY CallTyped
<1>2. o \in Calls /\ o.goal = goal /\ o.db = op[c].db /\ o.id = id /\ o.at = "sent"
  BY <1>1, CallRecords
<1>3. h \in Nat /\ h \in {None} \cup DOMAIN hs
  BY SameFits
<1>. QED
  BY <1>1, <1>2, <1>3 DEF DartFits

(* How the factory goes on after an answer. *)
LEMMA ContinueStep ==
  ASSUME TypeInvariant, NEW c \in Clients, Continue(c)
  PROVE  TypeInvariant' /\ Locked(c) /\ op[c].at = "answered"
<1>0. Locked(c) /\ op[c].at = "answered"
  BY DEF Continue, Opened, OpenFailed, AbandonOpen, Abandoned, Downgrade,
     DowngradeDelete, DowngradeReopen, Closed, Deleted, Answered, At
<1>. DEFINE hc == databaseOpenHelper[c]
            db == op[c].db
<1>1. CASE Opened(c)
  <2>. DEFINE e == [isOpen |-> TRUE, isClosed |-> FALSE, id |-> op[c].id]
              hs == [handles[c] EXCEPT ![db] = e]
  <2>1. op[c].goal # "delete"
    BY <1>1 DEF Opened, Answered
  <2>2. e \in Handle /\ Owned(c, e.id) /\ db \in DOMAIN handles[c]
    BY <1>0, <2>1, CallTyped DEF Handle
  <2>3. /\ hs \in Seq(Handle) /\ DOMAIN hs = DOMAIN handles[c]
        /\ \A i \in DOMAIN hs : Owned(c, hs[i].id)
        /\ handles' = [handles EXCEPT ![c] = hs]
    BY <1>1, <2>2, MarkedHandle DEF Opened
  <2>4. DartAfter(c, Unlocked, hs, hc)
    BY <1>1, <2>3, SameFits DEF Opened, Unlock, DartAfter
  <2>5. DartFits(c, Unlocked, hs, hc)
    BY <2>3, SameFits DEF DartFits
  <2>. QED
    BY <1>0, <2>4, <2>5, DartKeepsTypes
<1>2. CASE OpenFailed(c) \/ Abandoned(c)
  <2>1. DartAfter(c, Unlocked, handles[c], None)
    BY <1>2, SameFits DEF OpenFailed, Abandoned, SetHelper, Unlock, DartAfter
  <2>2. DartFits(c, Unlocked, handles[c], None)
    BY SameFits DEF DartFits
  <2>. QED
    BY <1>0, <2>1, <2>2, DartKeepsTypes
<1>3. ASSUME NEW goal \in {"abandon", "downgrade"}, NEW id \in Nat, Owned(c, id),
             op[c].goal # "delete", DoCloseOpening(c, goal, id)
      PROVE  TypeInvariant'
  <2>. DEFINE e == [isOpen |-> FALSE, isClosed |-> TRUE, id |-> id]
              hs == [handles[c] EXCEPT ![db] = e]
              o == Call(goal, "close", db, id)
  <2>1. e \in Handle /\ Owned(c, e.id) /\ db \in DOMAIN handles[c]
    BY <1>0, <1>3, CallTyped DEF Handle
  <2>2. /\ hs \in Seq(Handle) /\ DOMAIN hs = DOMAIN handles[c]
        /\ \A i \in DOMAIN hs : Owned(c, hs[i].id)
        /\ handles' = [handles EXCEPT ![c] = hs]
    BY <1>3, <2>1, MarkedHandle DEF DoCloseOpening
  <2>3. op' = [op EXCEPT ![c] = o]
    BY <1>3 DEF DoCloseOpening, Send, TypeInvariant
  <2>4. DartAfter(c, o, hs, hc)
    BY <1>3, <2>2, <2>3, SameFits DEF DoCloseOpening, DartAfter
  <2>5. DartFits(c, o, hs, hc)
    <3>1. goal \in Goals \ {"delete"} /\ "close" \in Methods
      BY <1>3 DEF Goals, Methods
    <3>. QED
      BY <1>0, <1>3, <2>2, <3>1, SentFits
  <2>. QED
    BY <1>0, <2>4, <2>5, DartKeepsTypes
<1>4. CASE AbandonOpen(c)
  <2>1. op[c].goal # "delete"
    BY <1>4 DEF AbandonOpen, Answered
  <2>2. db \in DOMAIN handles[c] /\ op[c].id \in Nat /\ Owned(c, op[c].id)
    BY <1>0, <2>1, CallTyped
  <2>3. handles[c][db] \in Handle /\ Owned(c, handles[c][db].id)
    BY <2>2, SameFits, ElementSeq
  <2>4. handles[c][db].id \in Nat
    BY <2>3 DEF Handle
  <2>5. \/ DoCloseOpening(c, "abandon", op[c].id)
        \/ DoCloseOpening(c, "abandon", handles[c][db].id)
    BY <1>4 DEF AbandonOpen
  <2>6. CASE DoCloseOpening(c, "abandon", op[c].id)
    BY <1>0, <1>3, <2>1, <2>2, <2>6
  <2>7. CASE DoCloseOpening(c, "abandon", handles[c][db].id)
    BY <1>0, <1>3, <2>1, <2>3, <2>4, <2>7
  <2>. QED
    BY <1>0, <2>5, <2>6, <2>7
<1>5. CASE Downgrade(c)
  <2>1. op[c].goal # "delete" /\ DoCloseOpening(c, "downgrade", op[c].id)
    BY <1>5 DEF Downgrade, Answered
  <2>2. op[c].id \in Nat /\ Owned(c, op[c].id)
    BY <1>0, CallTyped
  <2>. QED
    BY <1>0, <1>3, <2>1, <2>2
<1>6. CASE DowngradeDelete(c)
  <2>. DEFINE e == [handles[c][db] EXCEPT !.isClosed = FALSE]
              hs == [handles[c] EXCEPT ![db] = e]
              o == Call("downgrade", "delete", db, None)
  <2>1. op[c].goal # "delete"
    BY <1>6 DEF DowngradeDelete, Answered
  <2>2. db \in DOMAIN handles[c]
    BY <1>0, <2>1, CallTyped
  <2>3. handles[c][db] \in Handle /\ Owned(c, handles[c][db].id)
    BY <2>2, SameFits, ElementSeq
  <2>4. e \in Handle /\ e.id = handles[c][db].id
    BY <2>3 DEF Handle
  <2>5. /\ hs \in Seq(Handle) /\ DOMAIN hs = DOMAIN handles[c]
        /\ \A i \in DOMAIN hs : Owned(c, hs[i].id)
        /\ MarkHandle(c, db, e) => handles' = [handles EXCEPT ![c] = hs]
    <3>1. PICK x \in Handle : x = e /\ Owned(c, x.id)
      BY <2>3, <2>4
    <3>. HIDE DEF e
    <3>. QED
      BY <2>2, <3>1, MarkedHandle
  <2>6. op' = [op EXCEPT ![c] = o]
    BY <1>6 DEF DowngradeDelete, Send, TypeInvariant
  <2>7. DartAfter(c, o, hs, None)
    BY <1>6, <2>5, <2>6 DEF DowngradeDelete, SetHelper, DartAfter
  <2>8. DartFits(c, o, hs, None)
    <3>1. "downgrade" \in Goals \ {"delete"} /\ "delete" \in Methods
      BY DEF Goals, Methods
    <3>. QED
      BY <1>0, <2>1, <2>5, <3>1, SameFits, SentFits
  <2>. QED
    BY <1>0, <2>7, <2>8, DartKeepsTypes
<1>7. CASE DowngradeReopen(c)
  <2>. DEFINE o == Call("retry", "open", db, None)
  <2>1. op[c].goal # "delete"
    BY <1>7 DEF DowngradeReopen, Answered
  <2>2. op' = [op EXCEPT ![c] = o]
    BY <1>7 DEF DowngradeReopen, Send, TypeInvariant
  <2>3. DartAfter(c, o, handles[c], hc)
    BY <1>7, <2>2, SameFits DEF DowngradeReopen, DartAfter, dartVars
  <2>4. DartFits(c, o, handles[c], hc)
    <3>1. "retry" \in Goals \ {"delete"} /\ "open" \in Methods
      BY DEF Goals, Methods
    <3>. QED
      BY <1>0, <2>1, <3>1, SameFits, SentFits
  <2>. QED
    BY <1>0, <2>3, <2>4, DartKeepsTypes
<1>8. CASE Closed(c)
  <2>. DEFINE e == [handles[c][db] EXCEPT !.isOpen = FALSE]
              hs == [handles[c] EXCEPT ![db] = e]
  <2>1. op[c].goal # "delete"
    BY <1>8 DEF Closed, Answered
  <2>2. db \in DOMAIN handles[c]
    BY <1>0, <2>1, CallTyped
  <2>3. handles[c][db] \in Handle /\ Owned(c, handles[c][db].id)
    BY <2>2, SameFits, ElementSeq
  <2>4. e \in Handle /\ e.id = handles[c][db].id
    BY <2>3 DEF Handle
  <2>5. /\ hs \in Seq(Handle) /\ DOMAIN hs = DOMAIN handles[c]
        /\ \A i \in DOMAIN hs : Owned(c, hs[i].id)
        /\ MarkHandle(c, db, e) => handles' = [handles EXCEPT ![c] = hs]
    <3>1. PICK x \in Handle : x = e /\ Owned(c, x.id)
      BY <2>3, <2>4
    <3>. HIDE DEF e
    <3>. QED
      BY <2>2, <3>1, MarkedHandle
  <2>6. DartAfter(c, Unlocked, hs, None)
    BY <1>8, <2>5 DEF Closed, SetHelper, Unlock, DartAfter
  <2>7. DartFits(c, Unlocked, hs, None)
    BY <2>5, SameFits DEF DartFits
  <2>. QED
    BY <1>0, <2>6, <2>7, DartKeepsTypes
<1>9. CASE Deleted(c)
  <2>1. DartAfter(c, Unlocked, handles[c], hc)
    BY <1>9, SameFits DEF Deleted, Unlock, DartAfter, dartVars
  <2>2. DartFits(c, Unlocked, handles[c], hc)
    BY SameFits DEF DartFits
  <2>. QED
    BY <1>0, <2>1, <2>2, DartKeepsTypes
<1>. QED
  BY <1>0, <1>1, <1>2, <1>4, <1>5, <1>6, <1>7, <1>8, <1>9 DEF Continue
-----------------------------------------------------------------------------
(* What the plugin does to the call of a client: it changes how far it has *)
(* come and its id.                                                        *)
CallAfter(c, at, id) ==
  /\ UNCHANGED dartVars
  /\ op' = [op EXCEPT ![c].at = at, ![c].id = id]

LEMMA CallMoved ==
  ASSUME TypeInvariant, NEW c \in Clients, Locked(c),
         NEW at \in Stages, NEW id \in Nat, CallAfter(c, at, id)
  PROVE  /\ op' \in [Clients -> {Unlocked} \cup Calls]
         /\ op'[c] \in Calls /\ op'[c] # Unlocked
         /\ op'[c].goal = op[c].goal /\ op'[c].method = op[c].method
         /\ op'[c].db = op[c].db /\ op'[c].at = at /\ op'[c].id = id
         /\ \A d \in Clients : d # c => op'[d] = op[d]
         /\ handles' = handles /\ databaseOpenHelper' = databaseOpenHelper
<1>1. op \in [Clients -> {Unlocked} \cup Calls] /\ op[c] \in Calls
  BY DEF TypeInvariant, Locked
<1>2. /\ op'[c] = [op[c] EXCEPT !.at = at, !.id = id]
      /\ \A d \in Clients : d # c => op'[d] = op[d]
      /\ op' = [op EXCEPT ![c] = [op[c] EXCEPT !.at = at, !.id = id]]
  BY <1>1 DEF CallAfter
<1>3. /\ op'[c] \in Calls /\ op'[c].goal = op[c].goal /\ op'[c].method = op[c].method
      /\ op'[c].db = op[c].db /\ op'[c].at = at /\ op'[c].id = id
  BY <1>1, <1>2 DEF Calls
<1>4. op' \in [Clients -> {Unlocked} \cup Calls]
  BY <1>1, <1>2, <1>3
<1>. QED
  BY <1>2, <1>3, <1>4, CallRecords DEF CallAfter, dartVars

(* No database is forgotten, and none changes its path. *)
DatabasesGrow ==
  /\ databases' \in Seq(Connection)
  /\ Ids \subseteq Ids'
  /\ \A id \in Ids : databases'[id].path = databases[id].path

(* The map of single instances stays inside the map of databases. *)
MapsFit ==
  /\ databaseMap \subseteq Ids
  /\ singleInstancesByPath \in [Paths -> Nat]
  /\ \A p \in Paths : singleInstancesByPath[p] # None =>
       /\ singleInstancesByPath[p] \in databaseMap
       /\ databases[singleInstancesByPath[p]].path = p

(* The tasks of the other clients are as they were; that of the client, if *)
(* there is one, is for the call that it has made.                         *)
TasksAfter(c) ==
  /\ tasks' \in Seq(Task)
  /\ \A i \in DOMAIN tasks' :
       \/ tasks'[i].client # c /\ TaskFits(tasks'[i])
       \/ tasks'[i].client = c /\ TaskFits(tasks[i])'
  /\ \A i, j \in DOMAIN tasks' : tasks'[i].client = tasks'[j].client => i = j

LEMMA NativeKeepsTypes ==
  ASSUME TypeInvariant, NEW c \in Clients, Locked(c),
         NEW at \in Stages, NEW id \in Nat, CallAfter(c, at, id),
         DatabasesGrow, MapsFit', TasksAfter(c), databaseWorkerPool' \in BOOLEAN,
         Owned(c, id)',
         at = "posting" => op[c].method # "open",
         at = "posting" /\ op[c].method = "close" => id # None
  PROVE  TypeInvariant'
<1>1. /\ op' \in [Clients -> {Unlocked} \cup Calls]
      /\ op'[c] \in Calls /\ op'[c] # Unlocked
      /\ op'[c].goal = op[c].goal /\ op'[c].method = op[c].method
      /\ op'[c].db = op[c].db /\ op'[c].at = at /\ op'[c].id = id
      /\ \A d \in Clients : d # c => op'[d] = op[d]
      /\ handles' = handles /\ databaseOpenHelper' = databaseOpenHelper
  BY CallMoved
<1>2. \A d \in Clients : \A i : Owned(d, i) => Owned(d, i)'
  BY DEF Owned, Path, DatabasesGrow
<1>3. ASSUME NEW d \in Clients, NEW i \in DOMAIN handles[d]
      PROVE  Owned(d, handles[d][i].id)'
  <2>1. PICK x : x = handles[d][i].id /\ Owned(d, x)
    BY DEF TypeInvariant
  <2>. QED
    BY <1>1, <1>2, <2>1
<1>4. ASSUME NEW d \in Clients, Locked(d)' PROVE CallFits(d)'
  <2>1. CASE d = c
    <3>1. CallFits(c)
      BY DEF TypeInvariant
    <3>2. Owned(c, op[c].id)'
      BY <1>1 DEF Owned
    <3>. QED
      BY <1>1, <2>1, <3>1, <3>2 DEF CallFits, Owned
  <2>2. CASE d # c
    <3>1. op'[d] = op[d] /\ CallFits(d)
      BY <1>1, <1>4, <2>2 DEF Locked, TypeInvariant
    <3>2. Owned(d, op[d].id)'
      <4>1. PICK x : x = op[d].id /\ Owned(d, x)
        BY <3>1 DEF CallFits
      <4>2. Owned(d, x)'
        BY <1>2, <4>1
      <4>. QED
        BY <3>1, <4>1, <4>2 DEF Owned
    <3>. QED
      BY <1>1, <3>1, <3>2 DEF CallFits
  <2>. QED
    BY <2>1, <2>2
<1>5. ASSUME NEW i \in DOMAIN tasks' PROVE TaskFits(tasks[i])'
  <2>1. CASE tasks'[i].client # c /\ TaskFits(tasks'[i])
    <3>0. tasks'[i] \in Task
      BY ElementSeq DEF TasksAfter
    <3>1. PICK t \in Task : t = tasks'[i]
      BY <3>0
    <3>2. t.client \in Clients /\ t.client # c /\ TaskFits(t)
      BY <2>1, <3>1 DEF Task
    <3>3. Owned(t.client, t.id)'
      BY <1>2, <3>2 DEF TaskFits
    <3>4. At(t.client, t.method, "posted")'
      BY <1>1, <3>2 DEF TaskFits, At, Locked
    <3>. QED
      BY <3>1, <3>2, <3>3, <3>4 DEF TaskFits
  <2>2. CASE TaskFits(tasks[i])'
    BY <2>2
  <2>. QED
    BY <2>1, <2>2 DEF TasksAfter
<1>6. \A d \in Clients : databaseOpenHelper'[d] \in {None} \cup DOMAIN handles'[d]
  BY <1>1 DEF TypeInvariant
<1>7. /\ databaseOpenHelper' \in [Clients -> Nat]
      /\ handles' \in [Clients -> Seq(Handle)]
      /\ databases' \in Seq(Connection) /\ tasks' \in Seq(Task)
  BY <1>1 DEF TypeInvariant, DatabasesGrow, TasksAfter
<1>8. \A i, j \in DOMAIN tasks' : tasks'[i].client = tasks'[j].client => i = j
  BY DEF TasksAfter
<1>9. \A d \in Clients : \A i \in DOMAIN handles'[d] : Owned(d, handles[d][i].id)'
  BY <1>1, <1>3
<1>. QED
  BY <1>1, <1>4, <1>5, <1>6, <1>7, <1>8, <1>9 DEF TypeInvariant, MapsFit

(* The lists of databases, the maps and the tasks, step by step.           *)
LEMMA DatabasesSame ==
  ASSUME TypeInvariant, databases' = databases
  PROVE  DatabasesGrow /\ Ids' = Ids
BY DEF TypeInvariant, DatabasesGrow, Ids

LEMMA DatabaseAdded ==
  ASSUME TypeInvariant, NEW p \in Paths,
         databases' = Append(databases, NewDatabase(p))
  PROVE  LET n == Len(databases) + 1 IN
         /\ DatabasesGrow /\ Ids' = Ids \cup {n}
         /\ n \in Nat /\ n # None /\ n \notin Ids
         /\ databases'[n].path = p /\ databases'[n].connection = "new"
         /\ \A id \in Ids : databases'[id] = databases[id]
<1>1. /\ NewDatabase(p) \in Connection /\ NewDatabase(p).path = p
      /\ NewDatabase(p).connection = "new"
  BY DEF NewDatabase, Connection
<1>2. databases \in Seq(Connection)
  BY DEF TypeInvariant
<1>. QED
  BY <1>1, <1>2, AppendSeq DEF DatabasesGrow, Ids, None

LEMMA DatabaseMarked ==
  ASSUME TypeInvariant, NEW id \in Ids, NEW v \in {"open", "closed"},
         databases' = [databases EXCEPT ![id].connection = v]
  PROVE  /\ DatabasesGrow /\ Ids' = Ids
         /\ databases'[id].path = databases[id].path
         /\ databases'[id].connection = v
         /\ \A i \in Ids : i # id => databases'[i] = databases[i]
<1>. DEFINE e == [databases[id] EXCEPT !.connection = v]
<1>1. databases \in Seq(Connection) /\ id \in DOMAIN databases
  BY DEF TypeInvariant, Ids
<1>2. databases[id] \in Connection
  BY <1>1, ElementSeq
<1>3. e \in Connection /\ e.path = databases[id].path /\ e.connection = v
  BY <1>2 DEF Connection
<1>4. databases' = [databases EXCEPT ![id] = e]
  BY <1>1
<1>5. /\ databases' \in Seq(Connection) /\ DOMAIN databases' = DOMAIN databases
      /\ databases'[id] = e
      /\ \A i \in DOMAIN databases : i # id => databases'[i] = databases[i]
  <2>. HIDE DEF e
  <2>. QED
    BY <1>1, <1>3, <1>4, UpdateSeq
<1>6. \A i \in Ids : databases'[i].path = databases[i].path
  BY <1>3, <1>5 DEF Ids
<1>. QED
  BY <1>3, <1>5, <1>6 DEF DatabasesGrow, Ids

LEMMA MapsSame ==
  ASSUME TypeInvariant, DatabasesGrow, UNCHANGED mapVars
  PROVE  MapsFit'
BY DEF TypeInvariant, DatabasesGrow, MapsFit, mapVars

LEMMA MapsRemoved ==
  ASSUME TypeInvariant, NEW c \in Clients, NEW id \in databaseMap, Owned(c, id),
         RemoveFromMaps(c, id), databases' = databases
  PROVE  /\ MapsFit' /\ databaseMap' = databaseMap \ {id}
         /\ singleInstancesByPath'[Path(c)] = None
         /\ \A p \in Paths : p # Path(c) =>
              singleInstancesByPath'[p] = singleInstancesByPath[p]
<1>1. /\ singleInstancesByPath \in [Paths -> Nat] /\ Path(c) \in Paths
      /\ databaseMap \subseteq Ids /\ None \in Nat /\ id # None
  <2>1. Path(c) \in Paths
    BY FactoryAssumption DEF Path
  <2>2. id # None
    BY ElementSeq DEF TypeInvariant, Ids, None
  <2>. QED
    BY <2>1, <2>2 DEF TypeInvariant, None
<1>2. databases[id].path = Path(c)
  BY <1>1 DEF Owned
<1>3. /\ singleInstancesByPath' \in [Paths -> Nat]
      /\ databaseMap' = databaseMap \ {id}
      /\ singleInstancesByPath'[Path(c)] = None
      /\ \A p \in Paths : p # Path(c) =>
           singleInstancesByPath'[p] = singleInstancesByPath[p]
  BY <1>1 DEF RemoveFromMaps
<1>4. ASSUME NEW p \in Paths, singleInstancesByPath'[p] # None
      PROVE  /\ singleInstancesByPath'[p] \in databaseMap'
             /\ databases'[singleInstancesByPath'[p]].path = p
  <2>1. p # Path(c) /\ singleInstancesByPath'[p] = singleInstancesByPath[p]
    BY <1>3, <1>4
  <2>2. /\ singleInstancesByPath[p] \in databaseMap
        /\ databases[singleInstancesByPath[p]].path = p
    BY <1>4, <2>1 DEF TypeInvariant
  <2>. QED
    BY <1>2, <1>3, <2>1, <2>2
<1>5. databaseMap' \subseteq Ids'
  BY <1>1, <1>3 DEF Ids
<1>. QED
  BY <1>3, <1>4, <1>5 DEF MapsFit

LEMMA MapsAdded ==
  ASSUME TypeInvariant, NEW c \in Clients, NEW id \in Ids, Owned(c, id),
         databaseMap' = databaseMap \cup {id},
         singleInstancesByPath' = [singleInstancesByPath EXCEPT ![Path(c)] = id],
         DatabasesGrow
  PROVE  /\ MapsFit'
         /\ singleInstancesByPath'[Path(c)] = id
         /\ \A p \in Paths : p # Path(c) =>
              singleInstancesByPath'[p] = singleInstancesByPath[p]
<1>1. /\ singleInstancesByPath \in [Paths -> Nat] /\ Path(c) \in Paths
      /\ databaseMap \subseteq Ids /\ id # None /\ id \in Nat
  <2>1. Path(c) \in Paths
    BY FactoryAssumption DEF Path
  <2>2. id # None /\ id \in Nat
    BY ElementSeq DEF TypeInvariant, Ids, None
  <2>. QED
    BY <2>1, <2>2 DEF TypeInvariant
<1>2. databases'[id].path = Path(c)
  BY <1>1 DEF Owned, DatabasesGrow
<1>3. /\ singleInstancesByPath' \in [Paths -> Nat]
      /\ singleInstancesByPath'[Path(c)] = id
      /\ \A p \in Paths : p # Path(c) =>
           singleInstancesByPath'[p] = singleInstancesByPath[p]
  BY <1>1
<1>4. ASSUME NEW p \in Paths, singleInstancesByPath'[p] # None
      PROVE  /\ singleInstancesByPath'[p] \in databaseMap'
             /\ databases'[singleInstancesByPath'[p]].path = p
  <2>1. CASE p = Path(c)
    BY <1>2, <1>3, <2>1
  <2>2. CASE p # Path(c)
    <3>1. singleInstancesByPath'[p] = singleInstancesByPath[p]
      BY <1>3, <2>2
    <3>2. /\ singleInstancesByPath[p] \in databaseMap
          /\ databases[singleInstancesByPath[p]].path = p
      BY <1>4, <3>1 DEF TypeInvariant
    <3>. QED
      BY <1>1, <3>1, <3>2 DEF DatabasesGrow
  <2>. QED
    BY <2>1, <2>2
<1>5. databaseMap' \subseteq Ids'
  BY <1>1 DEF DatabasesGrow
<1>. QED
  BY <1>3, <1>4, <1>5 DEF MapsFit

LEMMA TaskTyped ==
  ASSUME TypeInvariant, NEW i \in DOMAIN tasks
  PROVE  /\ tasks[i] \in Task /\ TaskFits(tasks[i])
         /\ tasks[i].client \in Clients /\ tasks[i].method \in Methods
         /\ Locked(tasks[i].client) /\ op[tasks[i].client].at = "posted"
<1>1. tasks[i] \in Task
  BY ElementSeq DEF TypeInvariant
<1>. QED
  BY <1>1 DEF TypeInvariant, Task, TaskFits, At

LEMMA TasksSame ==
  ASSUME TypeInvariant, NEW c \in Clients, op[c].at # "posted", tasks' = tasks
  PROVE  TasksAfter(c)
<1>1. \A i \in DOMAIN tasks : tasks[i].client # c /\ TaskFits(tasks[i])
  BY TaskTyped
<1>. QED
  BY <1>1 DEF TasksAfter, TypeInvariant

LEMMA TasksPosted ==
  ASSUME TypeInvariant, NEW c \in Clients, Locked(c), op[c].at # "posted",
         NEW m \in Methods, NEW id \in Nat, m = op[c].method,
         tasks' = Append(tasks, [client |-> c, method |-> m, id |-> id]),
         NEW i2 \in Nat, CallAfter(c, "posted", i2),
         Owned(c, id)', m # "delete" => id # None
  PROVE  TasksAfter(c)
<1>. DEFINE t == [client |-> c, method |-> m, id |-> id]
<1>1. t \in Task /\ t.client = c /\ t.method = m /\ t.id = id
  BY DEF Task
<1>2. /\ tasks' \in Seq(Task) /\ tasks'[Len(tasks) + 1] = t
      /\ DOMAIN tasks' = DOMAIN tasks \cup {Len(tasks) + 1}
      /\ \A i \in DOMAIN tasks : tasks'[i] = tasks[i]
  <2>. HIDE DEF t
  <2>1. tasks' = Append(tasks, t)
    BY DEF t
  <2>. QED
    BY <1>1, <2>1, AppendSeq DEF TypeInvariant
<1>3. \A i \in DOMAIN tasks : tasks[i].client # c /\ TaskFits(tasks[i])
  BY TaskTyped
<1>4. op'[c].method = m /\ op'[c].at = "posted" /\ op'[c] # Unlocked
  BY CallMoved DEF Stages
<1>. HIDE DEF t
<1>5. ASSUME NEW i \in DOMAIN tasks', tasks'[i] = t
      PROVE  TaskFits(tasks[i])'
  <2>1. At(c, m, "posted")'
    BY <1>4 DEF At, Locked
  <2>. QED
    BY <1>1, <1>5, <2>1 DEF TaskFits, At, Locked
<1>. QED
  BY <1>1, <1>2, <1>3, <1>5 DEF TasksAfter, TypeInvariant

LEMMA TasksTaken ==
  ASSUME TypeInvariant, NEW c \in Clients, tasks # <<>>, Head(tasks).client = c,
         tasks' \in {Tail(tasks), <<>>}
  PROVE  TasksAfter(c)
<1>1. CASE tasks' = <<>>
  BY <1>1, EmptySeq DEF TasksAfter
<1>2. CASE tasks' = Tail(tasks)
  <2>1. /\ tasks' \in Seq(Task) /\ 1 \in DOMAIN tasks /\ tasks[1].client = c
        /\ \A j \in DOMAIN tasks' : /\ j \in Nat /\ j + 1 \in DOMAIN tasks
                                    /\ j + 1 # 1 /\ tasks'[j] = tasks[j + 1]
    BY <1>2, TailSeq DEF TypeInvariant
  <2>2. ASSUME NEW j \in DOMAIN tasks'
        PROVE  tasks'[j].client # c /\ TaskFits(tasks'[j])
    BY <2>1 DEF TypeInvariant
  <2>3. ASSUME NEW i \in DOMAIN tasks', NEW j \in DOMAIN tasks',
               tasks'[i].client = tasks'[j].client
        PROVE  i = j
    <3>1. i + 1 = j + 1
      BY <2>1, <2>3 DEF TypeInvariant
    <3>. QED
      BY <2>1, <3>1
  <2>. QED
    BY <2>1, <2>2, <2>3 DEF TasksAfter
<1>. QED
  BY <1>1, <1>2

(* The instance that the plugin finds is an open database of the path.     *)
LEMMA InstanceFound ==
  ASSUME TypeInvariant, NEW c \in Clients
  PROVE  /\ OpenedInstance(Path(c)) \in Nat
         /\ Owned(c, OpenedInstance(Path(c)))
         /\ OpenedInstance(Path(c)) # None =>
              /\ OpenedInstance(Path(c)) \in databaseMap
              /\ OpenedInstance(Path(c)) = singleInstancesByPath[Path(c)]
              /\ IsOpen(OpenedInstance(Path(c)))
<1>1. Path(c) \in Paths
  BY FactoryAssumption DEF Path
<1>2. singleInstancesByPath[Path(c)] \in Nat /\ None \in Nat
  BY <1>1 DEF TypeInvariant, None
<1>. QED
  BY <1>1, <1>2 DEF OpenedInstance, Owned, TypeInvariant

(* Closing a connection, the last one with the pool. *)
LEMMA CloseNativeStep ==
  ASSUME TypeInvariant, NEW id \in Ids, NEW left, CloseNative(id, left)
  PROVE  /\ DatabasesGrow /\ Ids' = Ids
         /\ databases'[id].connection = "closed"
         /\ \A i \in Ids : i # id => databases'[i] = databases[i]
         /\ tasks' \in {left, <<>>}
         /\ databaseWorkerPool' \in {databaseWorkerPool, FALSE}
         /\ databaseMap = {} => ~databaseWorkerPool' /\ tasks' = <<>>
         /\ databaseMap # {} => databaseWorkerPool' = databaseWorkerPool /\ tasks' = left
<1>1. databases' = [databases EXCEPT ![id].connection = "closed"]
  BY DEF CloseNative
<1>2. /\ DatabasesGrow /\ Ids' = Ids
      /\ databases'[id].connection = "closed"
      /\ \A i \in Ids : i # id => databases'[i] = databases[i]
  BY <1>1, DatabaseMarked
<1>. QED
  BY <1>2 DEF CloseNative

(* A call may move on without a change of its id. *)
LEMMA MovedOnly ==
  ASSUME TypeInvariant, NEW c \in Clients, Locked(c), NEW at \in Stages,
         op' = [op EXCEPT ![c].at = at], UNCHANGED dartVars
  PROVE  CallAfter(c, at, op[c].id) /\ op[c].id \in Nat
<1>1. op \in [Clients -> {Unlocked} \cup Calls] /\ op[c] \in Calls
  BY DEF TypeInvariant, Locked
<1>2. [op[c] EXCEPT !.at = at] = [op[c] EXCEPT !.at = at, !.id = op[c].id]
  BY <1>1 DEF Calls
<1>3. [op EXCEPT ![c].at = at] = [op EXCEPT ![c].at = at, ![c].id = op[c].id]
  BY <1>1, <1>2
<1>. QED
  BY <1>1, <1>3, CallRecords DEF CallAfter

(* The plugin's handlers keep the types. *)
LEMMA PluginStep ==
  ASSUME TypeInvariant, NEW c \in Clients, Plugin(c)
  PROVE  TypeInvariant' /\ Locked(c) /\ op[c].at \in {"sent", "posting"}
<1>. DEFINE m == op[c].method
<1>0. /\ Locked(c) /\ op[c].at \in {"sent", "posting"}
      /\ UNCHANGED dartVars
  BY DEF Plugin, OnOpenDatabaseCall, OnCloseDatabaseCall, OnDeleteDatabaseCall,
     Post, Handles, At
<1>i. PICK id \in Nat : id = op[c].id
  BY <1>0, CallTyped
<1>f. PICK found \in Nat : found = OpenedInstance(Path(c))
  BY InstanceFound
<1>1. /\ id \in Nat /\ Owned(c, id) /\ m \in Methods
      /\ None \in Nat /\ databaseWorkerPool \in BOOLEAN
      /\ "sent" \in Stages /\ "posting" \in Stages /\ "posted" \in Stages
      /\ "answered" \in Stages /\ Path(c) \in Paths
  BY <1>0, <1>i, CallTyped, CallRecords, FactoryAssumption
     DEF TypeInvariant, None, Stages, Path
<1>2. Owned(c, None)'
  BY DEF Owned
<1>3. ASSUME databases' = databases, NEW i, Owned(c, i) PROVE Owned(c, i)'
  BY <1>3 DEF Owned, Ids, Path
<1>4. found \in Nat /\ Owned(c, found) /\ (found # None => found \in databaseMap)
  BY <1>f, InstanceFound
<1>5. CASE OnOpenDatabaseCall(c)
  <2>1. m = "open" /\ op[c].at = "sent" /\ UNCHANGED mapVars
    BY <1>5 DEF OnOpenDatabaseCall, Handles, At
  <2>2. CASE Answer(c, found) /\ UNCHANGED <<databases, poolVars>>
    <3>1. CallAfter(c, "answered", found)
      BY <1>0, <2>2 DEF Answer, CallAfter
    <3>2. /\ DatabasesGrow /\ MapsFit' /\ TasksAfter(c)
          /\ databaseWorkerPool' \in BOOLEAN /\ Owned(c, found)'
      BY <1>1, <1>3, <1>4, <2>1, <2>2, DatabasesSame, MapsSame, TasksSame
         DEF poolVars
    <3>. QED
      BY <1>0, <1>1, <1>4, <3>1, <3>2, NativeKeepsTypes
  <2>3. CASE /\ databases' = Append(databases, NewDatabase(Path(c)))
             /\ databaseWorkerPool' = TRUE
             /\ tasks' = Posted(c, Len(databases) + 1)
             /\ op' = [op EXCEPT ![c].at = "posted"]
    <3>0. PICK n : n = Len(databases) + 1
      OBVIOUS
    <3>1. /\ DatabasesGrow /\ n \in Ids' /\ n \in Nat /\ n # None
          /\ databases'[n].path = Path(c)
      BY <1>1, <2>3, <3>0, DatabaseAdded
    <3>2. CallAfter(c, "posted", id)
      BY <1>0, <1>1, <1>i, <2>3, MovedOnly
    <3>3. Owned(c, n)' /\ Owned(c, id)'
      BY <1>1, <3>1 DEF Owned, Path, DatabasesGrow
    <3>4. TasksAfter(c)
      <4>1. tasks' = Append(tasks, [client |-> c, method |-> m, id |-> n])
        BY <2>3, <3>0 DEF Posted
      <4>. QED
        BY <1>0, <1>1, <2>1, <3>1, <3>2, <3>3, <4>1, TasksPosted
    <3>5. MapsFit'
      BY <2>1, <3>1, MapsSame
    <3>. QED
      BY <1>0, <1>1, <2>1, <2>3, <3>1, <3>2, <3>3, <3>4, <3>5, NativeKeepsTypes
  <2>. QED
    BY <1>0, <1>5, <1>f, <2>2, <2>3 DEF OnOpenDatabaseCall
<1>6. CASE OnCloseDatabaseCall(c)
  <2>1. /\ m = "close" /\ op[c].at = "sent" /\ databases' = databases
        /\ tasks' = tasks /\ databaseWorkerPool' = databaseWorkerPool
    BY <1>6 DEF OnCloseDatabaseCall, Handles, At, poolVars
  <2>2. DatabasesGrow /\ TasksAfter(c) /\ databaseWorkerPool' \in BOOLEAN
    BY <1>1, <2>1, DatabasesSame, TasksSame
  <2>3. CASE Answer(c, None) /\ UNCHANGED mapVars
    <3>1. CallAfter(c, "answered", None)
      BY <1>0, <2>3 DEF Answer, CallAfter
    <3>2. MapsFit'
      BY <2>2, <2>3, MapsSame
    <3>. QED
      BY <1>0, <1>1, <1>2, <2>2, <3>1, <3>2, NativeKeepsTypes
  <2>4. CASE /\ id \in databaseMap /\ RemoveFromMaps(c, id)
             /\ op' = [op EXCEPT ![c].at = "posting"]
    <3>1. CallAfter(c, "posting", id)
      BY <1>0, <1>1, <2>4, <1>i, MovedOnly
    <3>2. MapsFit'
      BY <1>1, <2>1, <2>4, MapsRemoved
    <3>3. id # None
      BY <2>4, ElementSeq DEF TypeInvariant, Ids, None
    <3>4. Owned(c, id)'
      BY <1>1, <1>3, <2>1
    <3>. QED
      BY <1>0, <1>1, <2>1, <2>2, <3>1, <3>2, <3>3, <3>4, NativeKeepsTypes
  <2>. QED
    BY <1>0, <1>6, <1>i, <2>3, <2>4 DEF OnCloseDatabaseCall
<1>7. CASE OnDeleteDatabaseCall(c)
  <2>1. /\ m = "delete" /\ op[c].at = "sent" /\ databases' = databases
        /\ tasks' = tasks /\ databaseWorkerPool' = databaseWorkerPool
        /\ CallAfter(c, "posting", found)
    BY <1>0, <1>7, <1>f DEF OnDeleteDatabaseCall, Handles, At, poolVars, CallAfter
  <2>2. DatabasesGrow /\ TasksAfter(c) /\ databaseWorkerPool' \in BOOLEAN
    BY <1>1, <2>1, DatabasesSame, TasksSame
  <2>3. MapsFit'
    <3>1. CASE found # None /\ RemoveFromMaps(c, found)
      BY <1>4, <2>1, <3>1, MapsRemoved
    <3>2. CASE UNCHANGED mapVars
      BY <2>2, <3>2, MapsSame
    <3>. QED
      BY <1>7, <1>f, <3>1, <3>2 DEF OnDeleteDatabaseCall
  <2>4. Owned(c, found)'
    BY <1>3, <1>4, <2>1
  <2>. QED
    BY <1>0, <1>1, <1>4, <2>1, <2>2, <2>3, <2>4, NativeKeepsTypes
<1>8. CASE Post(c)
  <2>1. /\ op[c].at = "posting" /\ UNCHANGED mapVars /\ m # "open"
        /\ m = "close" => id # None
    BY <1>0, <1>8, <1>i DEF Post, TypeInvariant, CallFits
  <2>2. CASE /\ databaseWorkerPool
             /\ tasks' = Posted(c, id)
             /\ op' = [op EXCEPT ![c].at = "posted"]
             /\ UNCHANGED <<databases, databaseWorkerPool>>
    <3>1. CallAfter(c, "posted", id)
      BY <1>0, <1>1, <2>2, <1>i, MovedOnly
    <3>2. DatabasesGrow /\ Owned(c, id)' /\ databaseWorkerPool' \in BOOLEAN
      BY <1>1, <1>3, <2>2, DatabasesSame
    <3>3. tasks' = Append(tasks, [client |-> c, method |-> m, id |-> id])
      BY <2>2 DEF Posted
    <3>4. m # "delete" => id # None
      BY <1>1, <2>1 DEF Methods
    <3>5. TasksAfter(c)
      BY <1>0, <1>1, <2>1, <3>1, <3>2, <3>3, <3>4, TasksPosted
    <3>6. MapsFit'
      BY <2>1, <3>2, MapsSame
    <3>. QED
      BY <1>0, <1>1, <2>1, <3>1, <3>2, <3>5, <3>6, NativeKeepsTypes
  <2>3. CASE /\ DeleteNative(id, tasks) /\ Answer(c, None)
    <3>1. CallAfter(c, "answered", None)
      BY <1>0, <2>3 DEF Answer, CallAfter
    <3>2. /\ DatabasesGrow /\ tasks' \in {tasks, <<>>}
          /\ databaseWorkerPool' \in BOOLEAN
      <4>1. CASE id # None /\ CloseNative(id, tasks)
        <5>1. id \in Ids
          BY <1>1, <4>1 DEF Owned
        <5>. QED
          BY <1>1, <4>1, <5>1, CloseNativeStep
      <4>2. CASE tasks' = tasks /\ UNCHANGED <<databases, databaseWorkerPool>>
        BY <1>1, <4>2, DatabasesSame
      <4>. QED
        BY <2>3, <4>1, <4>2 DEF DeleteNative
    <3>3. TasksAfter(c)
      <4>1. CASE tasks' = tasks
        BY <2>1, <4>1, TasksSame
      <4>2. CASE tasks' = <<>>
        BY <4>2, EmptySeq DEF TasksAfter
      <4>. QED
        BY <3>2, <4>1, <4>2
    <3>4. MapsFit'
      BY <2>1, <3>2, MapsSame
    <3>. QED
      BY <1>0, <1>1, <1>2, <3>1, <3>2, <3>3, <3>4, NativeKeepsTypes
  <2>4. CASE Answer(c, None) /\ UNCHANGED <<databases, poolVars>>
    <3>1. CallAfter(c, "answered", None)
      BY <1>0, <2>4 DEF Answer, CallAfter
    <3>2. /\ DatabasesGrow /\ databaseWorkerPool' \in BOOLEAN /\ TasksAfter(c)
      BY <1>1, <2>1, <2>4, DatabasesSame, TasksSame DEF poolVars
    <3>3. MapsFit'
      BY <2>1, <3>2, MapsSame
    <3>. QED
      BY <1>0, <1>1, <1>2, <3>1, <3>2, <3>3, NativeKeepsTypes
  <2>. QED
    BY <1>0, <1>8, <1>i, <2>2, <2>3, <2>4 DEF Post
<1>. QED
  BY <1>0, <1>5, <1>6, <1>7, <1>8 DEF Plugin

(* The client of the first task waits for it. *)
LEMMA FirstTask ==
  ASSUME TypeInvariant, tasks # <<>>
  PROVE  /\ Head(tasks) \in Task /\ Head(tasks) = tasks[1] /\ 1 \in DOMAIN tasks
         /\ Head(tasks).client \in Clients /\ Head(tasks).id \in Nat
         /\ TaskFits(Head(tasks))
         /\ Locked(Head(tasks).client)
         /\ op[Head(tasks).client].at = "posted"
         /\ op[Head(tasks).client].method = Head(tasks).method
<1>1. Head(tasks) \in Task /\ Head(tasks) = tasks[1] /\ 1 \in DOMAIN tasks
  BY TailSeq DEF TypeInvariant
<1>2. TaskFits(tasks[1])
  BY <1>1 DEF TypeInvariant
<1>. QED
  BY <1>1, <1>2 DEF Task, TaskFits, At

(* The pool's thread keeps the types. *)
LEMMA WorkerStep ==
  ASSUME TypeInvariant, Worker
  PROVE  TypeInvariant'
<1>0. tasks # <<>>
  BY DEF Worker, RunOpen, RunClose, RunDelete, NextTask
<1>t. PICK t \in Task : t = Head(tasks)
  BY <1>0, FirstTask
<1>. DEFINE c == t.client
<1>1. tasks # <<>> /\ (RunOpen(t) \/ RunClose(t) \/ RunDelete(t))
  BY <1>0, <1>t DEF Worker
<1>2. /\ t \in Task /\ c \in Clients /\ t.id \in Nat /\ TaskFits(t)
      /\ Locked(c) /\ Owned(c, t.id)
  BY <1>1, <1>t, FirstTask DEF TaskFits
<1>3. /\ None \in Nat /\ databaseWorkerPool \in BOOLEAN /\ "answered" \in Stages
  BY DEF TypeInvariant, None, Stages
<1>4. Owned(c, None)'
  BY DEF Owned
<1>5. UNCHANGED dartVars
  BY <1>1 DEF RunOpen, RunClose, RunDelete
<1>6. tasks' \in {Tail(tasks), <<>>} => TasksAfter(c)
  BY <1>1, <1>2, <1>t, TasksTaken
<1>7. ASSUME t.method # "delete" PROVE t.id \in Ids
  BY <1>2, <1>7 DEF TaskFits, Owned
<1>8. CASE RunOpen(t)
  <2>0. t.method = "open" /\ tasks' = Tail(tasks) /\ databaseWorkerPool' = databaseWorkerPool
    BY <1>8 DEF RunOpen
  <2>1. CASE /\ databases' = [databases EXCEPT ![t.id].connection = "open"]
             /\ databaseMap' = databaseMap \cup {t.id}
             /\ singleInstancesByPath' = [singleInstancesByPath EXCEPT ![Path(c)] = t.id]
             /\ Answer(c, t.id)
    <3>1. t.id \in Ids
      BY <1>7, <2>0
    <3>2. DatabasesGrow /\ Ids' = Ids
      BY <2>1, <3>1, DatabaseMarked
    <3>3. MapsFit'
      BY <1>2, <2>1, <3>1, <3>2, MapsAdded
    <3>4. CallAfter(c, "answered", t.id)
      BY <1>5, <2>1 DEF Answer, CallAfter
    <3>5. Owned(c, t.id)'
      BY <1>2, <3>1, <3>2 DEF Owned, Path, DatabasesGrow
    <3>. QED
      BY <1>2, <1>3, <1>6, <2>0, <3>2, <3>3, <3>4, <3>5, NativeKeepsTypes
  <2>2. CASE Answer(c, None) /\ UNCHANGED <<databases, mapVars>>
    <3>1. DatabasesGrow /\ MapsFit'
      BY <2>2, DatabasesSame, MapsSame
    <3>2. CallAfter(c, "answered", None)
      BY <1>5, <2>2 DEF Answer, CallAfter
    <3>. QED
      BY <1>2, <1>3, <1>4, <1>6, <2>0, <3>1, <3>2, NativeKeepsTypes
  <2>. QED
    BY <1>8, <2>1, <2>2 DEF RunOpen
<1>9. CASE RunClose(t) \/ RunDelete(t)
  <2>1. /\ CallAfter(c, "answered", None) /\ UNCHANGED mapVars
    BY <1>5, <1>9 DEF RunClose, RunDelete, Answer, CallAfter
  <2>2. /\ DatabasesGrow /\ tasks' \in {Tail(tasks), <<>>}
        /\ databaseWorkerPool' \in BOOLEAN
    <3>1. CASE t.id \in Ids /\ CloseNative(t.id, Tail(tasks))
      BY <1>3, <3>1, CloseNativeStep
    <3>2. CASE tasks' = Tail(tasks) /\ UNCHANGED <<databases, databaseWorkerPool>>
      BY <1>3, <3>2, DatabasesSame
    <3>3. CASE RunClose(t)
      BY <1>7, <3>1, <3>3 DEF RunClose
    <3>4. CASE RunDelete(t)
      <4>1. t.id # None => t.id \in Ids
        BY <1>2 DEF Owned
      <4>. QED
        BY <3>1, <3>2, <3>4, <4>1 DEF RunDelete, DeleteNative
    <3>. QED
      BY <1>9, <3>3, <3>4
  <2>3. MapsFit'
    BY <2>1, <2>2, MapsSame
  <2>. QED
    BY <1>2, <1>3, <1>4, <1>6, <2>1, <2>2, <2>3, NativeKeepsTypes
<1>. QED
  BY <1>1, <1>8, <1>9

(* Nothing changes. *)
LEMMA StutterTypes ==
  ASSUME TypeInvariant, UNCHANGED vars
  PROVE  TypeInvariant'
BY DEF vars, dartVars, mapVars, poolVars, TypeInvariant, CallFits, TaskFits,
   Owned, Ids, Path, Locked, At

LEMMA TypeStep == TypeInvariant /\ [Next]_vars => TypeInvariant'
<1>. SUFFICES ASSUME TypeInvariant, [Next]_vars PROVE TypeInvariant'
  OBVIOUS
<1>. QED
  BY RequestStep, ContinueStep, PluginStep, WorkerStep, StutterTypes DEF Next

LEMMA InitIdle ==
  ASSUME Init
  PROVE  \A c \in Clients : DOMAIN handles[c] = {} /\ ~Locked(c)
<1>1. \A c \in Clients : DOMAIN handles[c] = {}
  <2>1. \A c \in Clients : handles[c] = <<>>
    BY DEF Init
  <2>2. DOMAIN <<>> = {}
    OBVIOUS
  <2>. QED
    BY <2>1, <2>2
<1>2. \A c \in Clients : ~Locked(c)
  BY DEF Init, Locked
<1>. QED
  BY <1>1, <1>2

LEMMA InitTyped == Init => TypeInvariant
<1>. SUFFICES ASSUME Init PROVE TypeInvariant
  OBVIOUS
<1>1. /\ databases \in Seq(Connection) /\ tasks \in Seq(Task)
      /\ <<>> \in Seq(Handle)
      /\ DOMAIN tasks = {}
  BY EmptySeq DEF Init
<1>2. \A c \in Clients : DOMAIN handles[c] = {} /\ ~Locked(c)
  BY InitIdle
<1>. QED
  BY <1>1, <1>2 DEF Init, TypeInvariant, None

LEMMA TypeAlways == Spec => []TypeInvariant
BY InitTyped, TypeStep, PTL DEF Spec

(* The variables keep their types, whatever is opened, closed, deleted, or *)
(* downgraded in whatever order; and the plugin finds under a path only a  *)
(* database it knows by its id.                                            *)
THEOREM TypeCorrect == Spec => []TypeOK
BY TypeAlways, TypesFollow, PTL
-----------------------------------------------------------------------------
(* Where the hazards of the factory start: closing a handle once more,     *)
(* deleting under an open handle, and deleting in a downgrade.  An         *)
(* application that does none of them uses its databases carefully.        *)
CarefulUse == Usage \cap {"closeAgain", "deleteOpened", "downgradeDelete"} = {}

(* What makes SingleInstance inductive: of a client's Database objects     *)
(* only that of its helper is open, and the operation that holds the lock  *)
(* has that object or, if it deletes, the client has no helper.            *)
HelperFits(c) ==
  /\ \A i \in DOMAIN handles[c] :
       handles[c][i].isOpen => i = databaseOpenHelper[c]
  /\ Locked(c) =>
       \/ /\ op[c].goal = "open" /\ op[c].method = "open"
          /\ op[c].db = databaseOpenHelper[c] /\ ~handles[c][op[c].db].isOpen
       \/ /\ op[c].goal = "abandon" /\ op[c].method = "close"
          /\ op[c].db = databaseOpenHelper[c] /\ ~handles[c][op[c].db].isOpen
       \/ /\ op[c].goal = "close" /\ op[c].method = "close"
          /\ op[c].db = databaseOpenHelper[c] /\ handles[c][op[c].db].isClosed
       \/ /\ op[c].goal = "delete" /\ op[c].method = "delete"
          /\ databaseOpenHelper[c] = None

HelperInvariant == \A c \in Clients : HelperFits(c)

(* The records of the Database objects. *)
LEMMA HandleTyped ==
  ASSUME TypeInvariant, NEW c \in Clients, NEW db \in DOMAIN handles[c]
  PROVE  /\ handles[c][db] \in Handle /\ db \in Nat /\ db # None
         /\ handles[c][db].id \in Nat
         /\ handles[c][db].isOpen \in BOOLEAN /\ handles[c][db].isClosed \in BOOLEAN
<1>1. handles[c][db] \in Handle /\ db \in Nat /\ db # None
  BY ElementSeq DEF TypeInvariant, None
<1>. QED
  BY <1>1 DEF Handle

(* While an operation runs, the application has no open handle.            *)
LEMMA LockedNotLive ==
  ASSUME TypeInvariant, NEW c \in Clients, HelperFits(c), Locked(c),
         NEW i \in DOMAIN handles[c]
  PROVE  ~(handles[c][i].isOpen /\ ~handles[c][i].isClosed)
<1>. SUFFICES ASSUME handles[c][i].isOpen, ~handles[c][i].isClosed PROVE FALSE
  OBVIOUS
<1>1. i = databaseOpenHelper[c] /\ i # None
  BY HandleTyped DEF HelperFits
<1>. QED
  BY <1>1 DEF HelperFits

(* Marking an object changes no other. *)
LEMMA MarkEffect ==
  ASSUME TypeInvariant, NEW c \in Clients, NEW db \in DOMAIN handles[c],
         NEW e, MarkHandle(c, db, e)
  PROVE  /\ handles'[c][db] = e /\ DOMAIN handles'[c] = DOMAIN handles[c]
         /\ \A i \in DOMAIN handles[c] : i # db => handles'[c][i] = handles[c][i]
         /\ \A d \in Clients : d # c => handles'[d] = handles[d]
<1>1. handles \in [Clients -> Seq(Handle)] /\ handles[c] \in Seq(Handle)
  BY DEF TypeInvariant
<1>2. handles'[c] = [handles[c] EXCEPT ![db] = e]
      /\ \A d \in Clients : d # c => handles'[d] = handles[d]
  BY <1>1 DEF MarkHandle
<1>3. db \in DOMAIN handles[c]
  OBVIOUS
<1>. QED
  BY <1>1, <1>2, <1>3

(* What a step of the Dart side leaves alone, and what becomes live by it. *)
DartElsewhere(c) ==
  /\ UNCHANGED <<databases, databaseMap, singleInstancesByPath,
                 databaseWorkerPool, tasks>>
  /\ \A d \in Clients : d # c =>
       /\ op'[d] = op[d] /\ handles'[d] = handles[d]
       /\ databaseOpenHelper'[d] = databaseOpenHelper[d]
  /\ op'[c] # Unlocked => op'[c].at = "sent"

LiveBefore(c) ==
  \A i \in DOMAIN handles'[c] :
    handles'[c][i].isOpen /\ ~handles'[c][i].isClosed =>
      i \in DOMAIN handles[c] /\ handles'[c][i] = handles[c][i]

LEMMA RequestHelper ==
  ASSUME TypeInvariant, CarefulUse, NEW c \in Clients, HelperFits(c), Request(c)
  PROVE  HelperFits(c)' /\ DartElsewhere(c) /\ LiveBefore(c)
<1>0. /\ op \in [Clients -> {Unlocked} \cup Calls]
      /\ handles \in [Clients -> Seq(Handle)] /\ handles[c] \in Seq(Handle)
      /\ databaseOpenHelper \in [Clients -> Nat] /\ None \in Nat
      /\ "open" \in Goals /\ "close" \in Goals /\ "delete" \in Goals
      /\ "open" \in Methods /\ "close" \in Methods /\ "delete" \in Methods
  BY DEF TypeInvariant, None, Goals, Methods
<1>1. CASE OpenDatabase(c)
  <2>1. PICK n \in Nat : n = Len(handles[c]) + 1
    BY <1>0
  <2>2. PICK e \in Handle : e = NewHandle /\ ~e.isOpen
    <3>1. NewHandle \in Handle
      BY DEF NewHandle, Handle, None
    <3>2. NewHandle.isOpen = FALSE
      BY DEF NewHandle
    <3>. QED
      BY <3>1, <3>2
  <2>3. PICK o \in Calls : o = Call("open", "open", n, None)
    BY <1>0, CallRecords
  <2>4. o.goal = "open" /\ o.method = "open" /\ o.db = n /\ o.at = "sent"
    BY <1>0, <2>3, CallRecords
  <2>5. /\ op' = [op EXCEPT ![c] = o]
        /\ handles' = [handles EXCEPT ![c] = Append(@, e)]
        /\ databaseOpenHelper' = [databaseOpenHelper EXCEPT ![c] = n]
        /\ UNCHANGED <<databases, mapVars, poolVars>>
        /\ databaseOpenHelper[c] = None
    BY <1>1, <2>1, <2>2, <2>3 DEF OpenDatabase, SetHelper, Lock
  <2>6. /\ op'[c] = o /\ databaseOpenHelper'[c] = n
        /\ handles'[c] = Append(handles[c], e)
        /\ \A d \in Clients : d # c =>
             /\ op'[d] = op[d] /\ handles'[d] = handles[d]
             /\ databaseOpenHelper'[d] = databaseOpenHelper[d]
    BY <1>0, <2>5
  <2>7. /\ DOMAIN handles'[c] = DOMAIN handles[c] \cup {n} /\ handles'[c][n] = e
        /\ \A j \in DOMAIN handles[c] : handles'[c][j] = handles[c][j]
    BY <1>0, <2>1, <2>6, AppendSeq
  <2>8. \A j \in DOMAIN handles[c] : ~handles[c][j].isOpen
    BY <2>5, HandleTyped DEF HelperFits
  <2>9. HelperFits(c)'
    BY <2>2, <2>4, <2>6, <2>7, <2>8 DEF HelperFits, Locked
  <2>10. LiveBefore(c)
    BY <2>2, <2>7 DEF LiveBefore
  <2>. QED
    BY <2>4, <2>5, <2>6, <2>9, <2>10 DEF DartElsewhere, mapVars, poolVars
<1>2. CASE DeleteDatabase(c)
  <2>1. PICK o \in Calls : o = Call("delete", "delete", None, None)
    BY <1>0, CallRecords
  <2>2. o.goal = "delete" /\ o.method = "delete" /\ o.at = "sent"
    BY <1>0, <2>1, CallRecords
  <2>3. /\ op' = [op EXCEPT ![c] = o] /\ handles' = handles
        /\ databaseOpenHelper' = [databaseOpenHelper EXCEPT ![c] = None]
        /\ UNCHANGED <<databases, mapVars, poolVars>>
        /\ databaseOpenHelper[c] = None
    BY <1>2, <2>1 DEF DeleteDatabase, SetHelper, Lock, CarefulUse
  <2>4. /\ op'[c] = o /\ databaseOpenHelper'[c] = None
        /\ \A d \in Clients : d # c =>
             /\ op'[d] = op[d] /\ databaseOpenHelper'[d] = databaseOpenHelper[d]
    BY <1>0, <2>3
  <2>5. \A j \in DOMAIN handles[c] : ~handles[c][j].isOpen
    BY <2>3, HandleTyped DEF HelperFits
  <2>6. HelperFits(c)'
    BY <2>2, <2>3, <2>4, <2>5 DEF HelperFits, Locked
  <2>7. LiveBefore(c)
    BY <2>3 DEF LiveBefore
  <2>. QED
    BY <2>2, <2>3, <2>4, <2>6, <2>7 DEF DartElsewhere, mapVars, poolVars
<1>3. ASSUME NEW db \in DOMAIN handles[c], CloseDatabase(c, db)
      PROVE  HelperFits(c)' /\ DartElsewhere(c) /\ LiveBefore(c)
  <2>1. /\ handles[c][db] \in Handle /\ handles[c][db].isOpen /\ db \in Nat
        /\ handles[c][db].id \in Nat
    BY <1>3, HandleTyped DEF CloseDatabase, CarefulUse
  <2>2. PICK e : e = [handles[c][db] EXCEPT !.isClosed = TRUE]
    OBVIOUS
  <2>3. e.isClosed = TRUE
    BY <2>1, <2>2 DEF Handle
  <2>4. PICK o \in Calls : o = Call("close", "close", db, handles[c][db].id)
    BY <1>0, <2>1, CallRecords
  <2>5. o.goal = "close" /\ o.method = "close" /\ o.db = db /\ o.at = "sent"
    BY <1>0, <2>1, <2>4, CallRecords
  <2>6. /\ op' = [op EXCEPT ![c] = o] /\ MarkHandle(c, db, e)
        /\ UNCHANGED <<databaseOpenHelper, databases, mapVars, poolVars>>
    BY <1>3, <2>1, <2>2, <2>4 DEF CloseDatabase, Lock
  <2>7. /\ op'[c] = o
        /\ \A d \in Clients : d # c => op'[d] = op[d]
    BY <1>0, <2>6
  <2>8. /\ handles'[c][db] = e /\ DOMAIN handles'[c] = DOMAIN handles[c]
        /\ \A i \in DOMAIN handles[c] : i # db => handles'[c][i] = handles[c][i]
        /\ \A d \in Clients : d # c => handles'[d] = handles[d]
    BY <2>6, MarkEffect
  <2>9. db = databaseOpenHelper[c] /\ databaseOpenHelper' = databaseOpenHelper
    BY <2>1, <2>6 DEF HelperFits
  <2>10. HelperFits(c)'
    BY <2>3, <2>5, <2>7, <2>8, <2>9 DEF HelperFits, Locked
  <2>11. LiveBefore(c)
    BY <2>3, <2>8 DEF LiveBefore
  <2>. QED
    BY <2>5, <2>6, <2>7, <2>8, <2>9, <2>10, <2>11 DEF DartElsewhere, mapVars, poolVars
<1>. QED
  BY <1>1, <1>2, <1>3 DEF Request

(* What an operation goes on with: only its last step makes a handle live. *)
LEMMA ContinueHelper ==
  ASSUME TypeInvariant, CarefulUse, NEW c \in Clients, HelperFits(c), Continue(c)
  PROVE  /\ HelperFits(c)' /\ DartElsewhere(c) /\ Locked(c) /\ op[c].at = "answered"
         /\ \/ LiveBefore(c)
            \/ /\ At(c, "open", "answered") /\ op[c].id # None /\ ~Locked(c)'
               /\ \A i \in DOMAIN handles'[c] :
                    handles'[c][i].isOpen /\ ~handles'[c][i].isClosed =>
                      handles'[c][i].id = op[c].id
<1>0. /\ op \in [Clients -> {Unlocked} \cup Calls]
      /\ handles \in [Clients -> Seq(Handle)] /\ handles[c] \in Seq(Handle)
      /\ databaseOpenHelper \in [Clients -> Nat] /\ None \in Nat
      /\ "abandon" \in Goals /\ "close" \in Methods
  BY DEF TypeInvariant, None, Goals, Methods
<1>1. Locked(c) /\ op[c].at = "answered"
  BY DEF Continue, Opened, OpenFailed, AbandonOpen, Abandoned, Downgrade,
     DowngradeDelete, DowngradeReopen, Closed, Deleted, Answered, At
<1>2. op[c].goal \in {"open", "abandon", "close", "delete"}
  BY <1>1 DEF HelperFits
<1>3. PICK db : db = op[c].db
  OBVIOUS
<1>4. /\ op[c].goal # "delete" => db \in DOMAIN handles[c] /\ db = databaseOpenHelper[c]
      /\ op[c].id \in Nat
  BY <1>1, <1>3, CallTyped DEF HelperFits
<1>5. ASSUME op' = [op EXCEPT ![c] = Unlocked]
      PROVE  op'[c] = Unlocked /\ \A d \in Clients : d # c => op'[d] = op[d]
  BY <1>0, <1>5
<1>6. ASSUME SetHelper(c, None)
      PROVE  /\ databaseOpenHelper'[c] = None
             /\ \A d \in Clients : d # c => databaseOpenHelper'[d] = databaseOpenHelper[d]
  BY <1>0, <1>6 DEF SetHelper
<1>7. CASE Opened(c)
  <2>1. PICK e : e = [isOpen |-> TRUE, isClosed |-> FALSE, id |-> op[c].id]
    OBVIOUS
  <2>2. /\ MarkHandle(c, db, e) /\ op' = [op EXCEPT ![c] = Unlocked]
        /\ op[c].goal # "delete" /\ op[c].id # None /\ At(c, "open", "answered")
        /\ UNCHANGED <<databaseOpenHelper, databases, mapVars, poolVars>>
    BY <1>3, <1>7, <2>1 DEF Opened, Answered, Unlock
  <2>3. e.isOpen = TRUE /\ e.id = op[c].id
    BY <2>1
  <2>4. /\ handles'[c][db] = e /\ DOMAIN handles'[c] = DOMAIN handles[c]
        /\ \A i \in DOMAIN handles[c] : i # db => handles'[c][i] = handles[c][i]
        /\ \A d \in Clients : d # c => handles'[d] = handles[d]
    BY <1>4, <2>2, MarkEffect
  <2>5. /\ op'[c] = Unlocked
        /\ \A d \in Clients : d # c => op'[d] = op[d]
    BY <1>5, <2>2
  <2>6. HelperFits(c)'
    BY <1>4, <2>2, <2>4, <2>5 DEF HelperFits, Locked
  <2>7. \A i \in DOMAIN handles'[c] :
          handles'[c][i].isOpen /\ ~handles'[c][i].isClosed =>
            handles'[c][i].id = op[c].id
    BY <1>1, <2>3, <2>4, LockedNotLive
  <2>. QED
    BY <1>1, <2>2, <2>4, <2>5, <2>6, <2>7 DEF DartElsewhere, mapVars, poolVars, Locked
<1>8. CASE OpenFailed(c) \/ Abandoned(c)
  <2>1. /\ op' = [op EXCEPT ![c] = Unlocked] /\ SetHelper(c, None)
        /\ UNCHANGED <<handles, databases, mapVars, poolVars>>
        /\ op[c].goal \in {"open", "abandon"}
    BY <1>8 DEF OpenFailed, Abandoned, Answered, Unlock
  <2>2. /\ op'[c] = Unlocked
        /\ \A d \in Clients : d # c => op'[d] = op[d]
    BY <1>5, <2>1
  <2>3. \A i \in DOMAIN handles[c] : ~handles[c][i].isOpen
    BY <1>1, <1>4, <2>1 DEF HelperFits
  <2>4. HelperFits(c)'
    BY <2>1, <2>2, <2>3 DEF HelperFits, Locked
  <2>. QED
    BY <1>1, <1>6, <2>1, <2>2, <2>4 DEF DartElsewhere, LiveBefore, mapVars, poolVars
<1>9. ASSUME NEW id \in Nat, DoCloseOpening(c, "abandon", id),
             op[c].goal \in {"open", "abandon"}
      PROVE  HelperFits(c)' /\ DartElsewhere(c) /\ LiveBefore(c)
  <2>1. PICK e : e = [isOpen |-> FALSE, isClosed |-> TRUE, id |-> id]
    OBVIOUS
  <2>2. e.isOpen = FALSE
    BY <2>1
  <2>3. db \in Nat
    BY <1>1, <1>3, CallTyped
  <2>4. PICK o \in Calls : o = Call("abandon", "close", db, id)
    BY <1>0, <2>3, CallRecords
  <2>5. o.goal = "abandon" /\ o.method = "close" /\ o.db = db /\ o.at = "sent"
    BY <1>0, <2>3, <2>4, CallRecords
  <2>6. /\ MarkHandle(c, db, e) /\ op' = [op EXCEPT ![c] = o]
        /\ UNCHANGED <<databaseOpenHelper, databases, mapVars, poolVars>>
    BY <1>0, <1>3, <1>9, <2>1, <2>4 DEF DoCloseOpening, Send
  <2>7. /\ op'[c] = o
        /\ \A d \in Clients : d # c => op'[d] = op[d]
    BY <1>0, <2>6
  <2>8. /\ handles'[c][db] = e /\ DOMAIN handles'[c] = DOMAIN handles[c]
        /\ \A i \in DOMAIN handles[c] : i # db => handles'[c][i] = handles[c][i]
        /\ \A d \in Clients : d # c => handles'[d] = handles[d]
    BY <1>4, <1>9, <2>6, MarkEffect
  <2>9. db = databaseOpenHelper[c] /\ databaseOpenHelper' = databaseOpenHelper
    BY <1>4, <1>9, <2>6
  <2>10. HelperFits(c)'
    BY <2>2, <2>5, <2>7, <2>8, <2>9 DEF HelperFits, Locked
  <2>11. LiveBefore(c)
    BY <2>2, <2>8 DEF LiveBefore
  <2>. QED
    BY <2>5, <2>6, <2>7, <2>8, <2>9, <2>10, <2>11 DEF DartElsewhere, mapVars, poolVars
<1>10. CASE AbandonOpen(c)
  <2>1. /\ op[c].goal \in {"open", "abandon"}
        /\ DoCloseOpening(c, "abandon", op[c].id)
    BY <1>2, <1>10 DEF AbandonOpen, Answered
  <2>. QED
    BY <1>1, <1>4, <1>9, <2>1
<1>11. ~Downgrade(c) /\ ~DowngradeDelete(c) /\ ~DowngradeReopen(c)
  BY <1>2 DEF Downgrade, DowngradeDelete, DowngradeReopen, Answered, CarefulUse
<1>12. CASE Closed(c)
  <2>1. op[c].goal = "close"
    BY <1>12 DEF Closed, Answered
  <2>2. PICK e : e = [handles[c][db] EXCEPT !.isOpen = FALSE]
    OBVIOUS
  <2>3. e.isOpen = FALSE
    BY <1>4, <2>1, <2>2, HandleTyped DEF Handle
  <2>4. /\ MarkHandle(c, db, e) /\ op' = [op EXCEPT ![c] = Unlocked]
        /\ SetHelper(c, None) /\ UNCHANGED <<databases, mapVars, poolVars>>
    BY <1>3, <1>12, <2>2 DEF Closed, Unlock
  <2>5. /\ handles'[c][db] = e /\ DOMAIN handles'[c] = DOMAIN handles[c]
        /\ \A i \in DOMAIN handles[c] : i # db => handles'[c][i] = handles[c][i]
        /\ \A d \in Clients : d # c => handles'[d] = handles[d]
    BY <1>4, <2>1, <2>4, MarkEffect
  <2>6. /\ op'[c] = Unlocked
        /\ \A d \in Clients : d # c => op'[d] = op[d]
    BY <1>5, <2>4
  <2>7. \A i \in DOMAIN handles[c] : i # db => ~handles[c][i].isOpen
    BY <1>4, <2>1 DEF HelperFits
  <2>8. HelperFits(c)'
    BY <2>3, <2>5, <2>6, <2>7 DEF HelperFits, Locked
  <2>9. LiveBefore(c)
    BY <2>3, <2>5 DEF LiveBefore
  <2>. QED
    BY <1>1, <1>6, <2>4, <2>5, <2>6, <2>8, <2>9 DEF DartElsewhere, mapVars, poolVars
<1>13. CASE Deleted(c)
  <2>1. /\ op' = [op EXCEPT ![c] = Unlocked]
        /\ UNCHANGED <<handles, databaseOpenHelper, databases, mapVars, poolVars>>
    BY <1>13 DEF Deleted, Unlock, dartVars
  <2>2. /\ op'[c] = Unlocked
        /\ \A d \in Clients : d # c => op'[d] = op[d]
    BY <1>5, <2>1
  <2>3. HelperFits(c)'
    BY <2>1, <2>2 DEF HelperFits, Locked
  <2>. QED
    BY <1>1, <2>1, <2>2, <2>3 DEF DartElsewhere, LiveBefore, mapVars, poolVars
<1>. QED
  BY <1>1, <1>7, <1>8, <1>10, <1>11, <1>12, <1>13 DEF Continue

(* The plugin only moves calls on. *)
LEMMA PluginMoves ==
  ASSUME TypeInvariant, NEW c \in Clients, Plugin(c)
  PROVE  Locked(c) /\ \E at \in Stages, id \in Nat : CallAfter(c, at, id)
<1>1. Locked(c) /\ UNCHANGED dartVars
  BY DEF Plugin, OnOpenDatabaseCall, OnCloseDatabaseCall, OnDeleteDatabaseCall,
     Post, Handles, At
<1>2. \/ \E id \in {None, OpenedInstance(Path(c))} : Answer(c, id)
      \/ op' = [op EXCEPT ![c].at = "posted"]
      \/ op' = [op EXCEPT ![c].at = "posting"]
      \/ op' = [op EXCEPT ![c].at = "posting", ![c].id = OpenedInstance(Path(c))]
  BY DEF Plugin, OnOpenDatabaseCall, OnCloseDatabaseCall, OnDeleteDatabaseCall, Post
<1>3. /\ None \in Nat /\ OpenedInstance(Path(c)) \in Nat
      /\ "posting" \in Stages /\ "posted" \in Stages /\ "answered" \in Stages
  BY InstanceFound DEF None, Stages
<1>4. CASE \E id \in {None, OpenedInstance(Path(c))} : Answer(c, id)
  BY <1>1, <1>3, <1>4 DEF Answer, CallAfter
<1>5. CASE op' = [op EXCEPT ![c].at = "posting", ![c].id = OpenedInstance(Path(c))]
  BY <1>1, <1>3, <1>5 DEF CallAfter
<1>6. ASSUME NEW at \in Stages, op' = [op EXCEPT ![c].at = at]
      PROVE  CallAfter(c, at, op[c].id) /\ op[c].id \in Nat
  BY <1>1, <1>6, MovedOnly
<1>. QED
  BY <1>1, <1>2, <1>3, <1>4, <1>5, <1>6

LEMMA WorkerMoves ==
  ASSUME TypeInvariant, Worker
  PROVE  /\ tasks # <<>> /\ Head(tasks).client \in Clients
         /\ Locked(Head(tasks).client)
         /\ op[Head(tasks).client].method = Head(tasks).method
         /\ \E id \in {None, Head(tasks).id} :
              id \in Nat /\ CallAfter(Head(tasks).client, "answered", id)
<1>1. tasks # <<>>
  BY DEF Worker, RunOpen, RunClose, RunDelete, NextTask
<1>2. Head(tasks).id \in Nat /\ None \in Nat
  BY <1>1, FirstTask DEF None
<1>. QED
  BY <1>1, <1>2, FirstTask
     DEF Worker, RunOpen, RunClose, RunDelete, Answer, CallAfter

(* Moving a call on does not concern the helpers. *)
LEMMA MovedHelpers ==
  ASSUME TypeInvariant, HelperInvariant, NEW c \in Clients, Locked(c),
         NEW at \in Stages, NEW id \in Nat, CallAfter(c, at, id)
  PROVE  HelperInvariant'
<1>1. /\ op'[c] # Unlocked
      /\ op'[c].goal = op[c].goal /\ op'[c].method = op[c].method
      /\ op'[c].db = op[c].db
      /\ \A d \in Clients : d # c => op'[d] = op[d]
      /\ handles' = handles /\ databaseOpenHelper' = databaseOpenHelper
  BY CallMoved
<1>2. ASSUME NEW d \in Clients PROVE HelperFits(d)'
  <2>1. HelperFits(d)
    BY DEF HelperInvariant
  <2>2. CASE d = c
    BY <1>1, <2>1, <2>2 DEF HelperFits
  <2>3. CASE d # c
    BY <1>1, <2>1, <2>3 DEF HelperFits, Locked
  <2>. QED
    BY <2>2, <2>3
<1>. QED
  BY <1>2 DEF HelperInvariant

LEMMA HelperStep ==
  ASSUME TypeInvariant, HelperInvariant, CarefulUse, [Next]_vars
  PROVE  HelperInvariant'
<1>1. ASSUME NEW c \in Clients, Request(c) \/ Continue(c) PROVE HelperInvariant'
  <2>1. HelperFits(c)' /\ DartElsewhere(c)
    BY <1>1, RequestHelper, ContinueHelper DEF HelperInvariant
  <2>2. ASSUME NEW d \in Clients, d # c PROVE HelperFits(d)'
    <3>1. HelperFits(d) /\ op'[d] = op[d] /\ handles'[d] = handles[d]
          /\ databaseOpenHelper'[d] = databaseOpenHelper[d]
      BY <2>1, <2>2 DEF DartElsewhere, HelperInvariant
    <3>. QED
      BY <3>1 DEF HelperFits, Locked
  <2>. QED
    BY <2>1, <2>2 DEF HelperInvariant
<1>2. ASSUME NEW c \in Clients, Plugin(c) PROVE HelperInvariant'
  BY <1>2, PluginMoves, MovedHelpers
<1>3. CASE Worker
  <2>1. "answered" \in Stages
    BY DEF Stages
  <2>. QED
    BY <1>3, <2>1, WorkerMoves, MovedHelpers
<1>4. CASE UNCHANGED vars
  BY <1>4 DEF vars, dartVars, HelperInvariant, HelperFits, Locked
<1>. QED
  BY <1>1, <1>2, <1>3, <1>4 DEF Next

LEMMA HelperAlways ==
  ASSUME CarefulUse
  PROVE  Spec => []HelperInvariant
<1>1. Init => HelperInvariant
  <2>. SUFFICES ASSUME Init PROVE HelperInvariant
    OBVIOUS
  <2>1. \A c \in Clients : DOMAIN handles[c] = {} /\ ~Locked(c)
    BY InitIdle
  <2>. QED
    BY <2>1 DEF HelperInvariant, HelperFits
<1>. QED
  BY <1>1, HelperStep, TypeAlways, PTL DEF Spec

(* Opening a path again while it is open never makes a second Database     *)
(* object of it, as long as the application closes a handle once, deletes  *)
(* no open database and does not delete in a downgrade: the helper of the  *)
(* path is that of the open object whatever succeeds, fails or is          *)
(* abandoned, for any number of opens, paths and isolates.                 *)
THEOREM OneInstance ==
  ASSUME CarefulUse
  PROVE  Spec => []SingleInstance
<1>1. HelperInvariant => SingleInstance
  BY DEF HelperInvariant, HelperFits, SingleInstance, IsLive
<1>. QED
  BY <1>1, HelperAlways, PTL
-----------------------------------------------------------------------------
(* No path is opened in two isolates. *)
OneIsolatePerPath == \A c, d \in Clients : Path(c) = Path(d) => c = d

(* A database that the plugin knows, under the path, and whose connection  *)
(* is open.                                                                *)
Works(c, id) ==
  id \in databaseMap /\ id = singleInstancesByPath[Path(c)] /\ IsOpen(id)

(* What makes LiveHandleWorks inductive: so does the database that an open *)
(* has answered and that becomes a handle when the factory goes on.        *)
HandlesWork(c) ==
  /\ \A i \in DOMAIN handles[c] :
       handles[c][i].isOpen /\ ~handles[c][i].isClosed => Works(c, handles[c][i].id)
  /\ At(c, "open", "answered") /\ op[c].id # None => Works(c, op[c].id)

WorkingInvariant == \A c \in Clients : HandlesWork(c)

(* A step of the plugin for a client touches at most one database, of the  *)
(* client's path.                                                          *)
NativeElsewhere(c) ==
  \E x : /\ Owned(c, x)
         /\ \A i \in Ids : i # x => databases'[i] = databases[i]
         /\ \A p \in Paths : p # Path(c) =>
              singleInstancesByPath'[p] = singleInstancesByPath[p]
         /\ databaseMap \ {x} \subseteq databaseMap'

LEMMA ElsewhereKept ==
  ASSUME TypeInvariant, OneIsolatePerPath, NEW c \in Clients, NativeElsewhere(c),
         NEW d \in Clients, d # c, NEW id, Works(d, id)
  PROVE  Works(d, id)'
<1>1. PICK x : /\ Owned(c, x)
               /\ \A i \in Ids : i # x => databases'[i] = databases[i]
               /\ \A p \in Paths : p # Path(c) =>
                    singleInstancesByPath'[p] = singleInstancesByPath[p]
               /\ databaseMap \ {x} \subseteq databaseMap'
  BY DEF NativeElsewhere
<1>2. Path(d) \in Paths /\ Path(c) \in Paths /\ Path(d) # Path(c)
  <2>1. Path(d) # Path(c)
    BY DEF OneIsolatePerPath
  <2>. QED
    BY <2>1, FactoryAssumption DEF Path
<1>3. id \in Ids /\ id # None /\ databases[id].path = Path(d)
  <2>1. id \in Ids /\ id # None
    BY ElementSeq DEF Works, TypeInvariant, Ids, None
  <2>. QED
    BY <1>2, <2>1 DEF Works, TypeInvariant
<1>4. id # x
  BY <1>1, <1>2, <1>3 DEF Owned
<1>. QED
  BY <1>1, <1>2, <1>3, <1>4 DEF Works, IsOpen, Path

(* The call of a client of which an open is answered names a database that *)
(* works.                                                                  *)
AnswerWorks(c) == At(c, "open", "answered") /\ op[c].id # None => Works(c, op[c].id)

LEMMA PluginWorks ==
  ASSUME TypeInvariant, NEW c \in Clients, Plugin(c)
  PROVE  NativeElsewhere(c) /\ AnswerWorks(c)'
<1>0. Locked(c) /\ op \in [Clients -> {Unlocked} \cup Calls] /\ op[c] \in Calls
  BY PluginMoves DEF TypeInvariant, Locked
<1>1. PICK at \in Stages, id \in Nat : CallAfter(c, at, id)
  BY PluginMoves
<1>2. /\ op'[c].method = op[c].method /\ op'[c].at = at /\ op'[c].id = id
      /\ \A x : op' = [op EXCEPT ![c].at = x] => op'[c].at = x
      /\ \A x, y : op' = [op EXCEPT ![c].at = x, ![c].id = y] =>
           op'[c].at = x /\ op'[c].id = y
  <2>1. op'[c].method = op[c].method /\ op'[c].at = at /\ op'[c].id = id
    BY <1>0, <1>1, CallMoved
  <2>2. ASSUME NEW x, op' = [op EXCEPT ![c].at = x] PROVE op'[c].at = x
    BY <1>0, <2>2 DEF Calls
  <2>3. ASSUME NEW x, NEW y, op' = [op EXCEPT ![c].at = x, ![c].id = y]
        PROVE  op'[c].at = x /\ op'[c].id = y
    BY <1>0, <2>3 DEF Calls
  <2>. QED
    BY <2>1, <2>2, <2>3
<1>3. ASSUME databases' = databases, UNCHANGED mapVars PROVE NativeElsewhere(c)
  <2>1. Owned(c, None)
    BY DEF Owned
  <2>. QED
    BY <1>3, <2>1 DEF NativeElsewhere, mapVars
<1>4. ASSUME NEW x \in databaseMap, Owned(c, x), RemoveFromMaps(c, x),
             databases' = databases
      PROVE  NativeElsewhere(c)
  BY <1>4, MapsRemoved DEF NativeElsewhere
<1>5. PICK found \in Nat : found = OpenedInstance(Path(c))
  BY InstanceFound
<1>6. Owned(c, found) /\ (found # None => found \in databaseMap /\ Works(c, found))
  BY <1>5, InstanceFound DEF Works
<1>7. CASE OnOpenDatabaseCall(c)
  <2>1. CASE Answer(c, found) /\ UNCHANGED <<databases, mapVars>>
    <3>1. op'[c].id = found
      BY <1>2, <2>1 DEF Answer
    <3>2. found # None => Works(c, found)'
      BY <1>6, <2>1 DEF Works, IsOpen, Path, mapVars
    <3>3. AnswerWorks(c)'
      BY <1>2, <3>1, <3>2 DEF AnswerWorks, Works
    <3>. QED
      BY <1>3, <2>1, <3>3
  <2>2. CASE /\ databases' = Append(databases, NewDatabase(Path(c)))
             /\ op' = [op EXCEPT ![c].at = "posted"] /\ UNCHANGED mapVars
    <3>1. \A i \in Ids : databases'[i] = databases[i]
      BY <2>2, FactoryAssumption, DatabaseAdded DEF Path
    <3>2. Owned(c, None)
      BY DEF Owned
    <3>3. NativeElsewhere(c)
      BY <2>2, <3>1, <3>2 DEF NativeElsewhere, mapVars
    <3>4. AnswerWorks(c)'
      BY <1>2, <2>2 DEF AnswerWorks, At
    <3>. QED
      BY <3>3, <3>4
  <2>. QED
    BY <1>5, <1>7, <2>1, <2>2 DEF OnOpenDatabaseCall
<1>8. CASE op[c].method # "open"
  <2>1. AnswerWorks(c)'
    BY <1>2, <1>8 DEF AnswerWorks, At
  <2>2. CASE OnCloseDatabaseCall(c)
    <3>1. databases' = databases /\ Owned(c, op[c].id)
      BY <1>0, <2>2, CallTyped DEF OnCloseDatabaseCall
    <3>2. \/ UNCHANGED mapVars
          \/ op[c].id \in databaseMap /\ RemoveFromMaps(c, op[c].id)
      BY <2>2 DEF OnCloseDatabaseCall
    <3>. QED
      BY <1>3, <1>4, <2>1, <3>1, <3>2
  <2>3. CASE OnDeleteDatabaseCall(c)
    <3>1. /\ databases' = databases
          /\ UNCHANGED mapVars \/ (found # None /\ RemoveFromMaps(c, found))
      BY <1>5, <2>3 DEF OnDeleteDatabaseCall
    <3>. QED
      BY <1>3, <1>4, <1>6, <2>1, <3>1
  <2>4. CASE Post(c)
    <3>1. UNCHANGED mapVars
      BY <2>4 DEF Post
    <3>2. PICK x \in Nat : x = op[c].id /\ Owned(c, x)
      BY <1>0, CallTyped
    <3>3. CASE databases' = databases
      BY <1>3, <2>1, <3>1, <3>3
    <3>4. CASE x # None /\ CloseNative(x, tasks)
      <4>1. x \in Ids
        BY <3>2, <3>4 DEF Owned
      <4>2. \A i \in Ids : i # x => databases'[i] = databases[i]
        BY <3>4, <4>1, CloseNativeStep
      <4>. QED
        BY <2>1, <3>1, <3>2, <4>2 DEF NativeElsewhere, mapVars
    <3>. QED
      BY <2>4, <3>2, <3>3, <3>4 DEF Post, DeleteNative
  <2>5. ~OnOpenDatabaseCall(c)
    BY <1>8 DEF OnOpenDatabaseCall, Handles, At
  <2>. QED
    BY <2>2, <2>3, <2>4, <2>5 DEF Plugin
<1>9. CASE op[c].method = "open"
  <2>1. ~OnCloseDatabaseCall(c) /\ ~OnDeleteDatabaseCall(c)
    BY <1>9 DEF OnCloseDatabaseCall, OnDeleteDatabaseCall, Handles, At
  <2>2. ~Post(c)
    BY <1>9 DEF Post, TypeInvariant, CallFits
  <2>. QED
    BY <1>7, <2>1, <2>2 DEF Plugin
<1>. QED
  BY <1>8, <1>9

LEMMA WorkerWorks ==
  ASSUME TypeInvariant, Worker, NEW c \in Clients, c = Head(tasks).client
  PROVE  NativeElsewhere(c) /\ AnswerWorks(c)'
<1>1. tasks # <<>>
  BY WorkerMoves
<1>2. PICK t \in Task : t = Head(tasks)
  BY <1>1, FirstTask
<1>3. /\ RunOpen(t) \/ RunClose(t) \/ RunDelete(t)
      /\ t.client = c /\ Owned(c, t.id) /\ op[c].method = t.method /\ Locked(c)
      /\ t.method # "delete" => t.id # None
      /\ t.id \in Nat /\ None \in Nat
  BY <1>1, <1>2, FirstTask DEF Worker, TaskFits, None
<1>4. ASSUME NEW id \in {None, t.id}, Answer(c, id)
      PROVE  op'[c].method = op[c].method /\ op'[c].id = id
  <2>1. CallAfter(c, "answered", id) /\ "answered" \in Stages /\ id \in Nat
    BY <1>3, <1>4 DEF RunOpen, RunClose, RunDelete, Answer, CallAfter, Stages
  <2>. QED
    BY <1>3, <2>1, CallMoved
<1>5. CASE RunOpen(t)
  <2>1. t.method = "open" /\ t.id \in Ids /\ t.id # None
    BY <1>3, <1>5 DEF RunOpen, Owned
  <2>2. CASE /\ databases' = [databases EXCEPT ![t.id].connection = "open"]
             /\ databaseMap' = databaseMap \cup {t.id}
             /\ singleInstancesByPath' = [singleInstancesByPath EXCEPT ![Path(c)] = t.id]
             /\ Answer(c, t.id)
    <3>1. /\ DatabasesGrow /\ databases'[t.id].connection = "open"
          /\ \A i \in Ids : i # t.id => databases'[i] = databases[i]
      BY <2>1, <2>2, DatabaseMarked
    <3>2. /\ singleInstancesByPath'[Path(c)] = t.id
          /\ \A p \in Paths : p # Path(c) =>
               singleInstancesByPath'[p] = singleInstancesByPath[p]
      BY <1>3, <2>1, <2>2, <3>1, MapsAdded
    <3>3. Works(c, t.id)'
      BY <2>2, <3>1, <3>2 DEF Works, IsOpen, Path
    <3>4. op'[c].id = t.id
      BY <1>4, <2>2
    <3>5. AnswerWorks(c)'
      BY <3>3, <3>4 DEF AnswerWorks, Works
    <3>6. NativeElsewhere(c)
      BY <1>3, <2>2, <3>1, <3>2 DEF NativeElsewhere
    <3>. QED
      BY <3>5, <3>6
  <2>3. CASE Answer(c, None) /\ UNCHANGED <<databases, mapVars>>
    <3>1. op'[c].id = None
      BY <1>4, <2>3
    <3>2. Owned(c, None)
      BY DEF Owned
    <3>. QED
      BY <2>3, <3>1, <3>2 DEF AnswerWorks, NativeElsewhere, mapVars
  <2>. QED
    BY <1>3, <1>5, <2>2, <2>3 DEF RunOpen
<1>6. CASE RunClose(t) \/ RunDelete(t)
  <2>1. Answer(c, None) /\ UNCHANGED mapVars
    BY <1>3, <1>6 DEF RunClose, RunDelete
  <2>2. op'[c].id = None
    BY <1>4, <2>1
  <2>3. \/ t.id # None /\ CloseNative(t.id, Tail(tasks))
        \/ databases' = databases
    BY <1>3, <1>6 DEF RunClose, RunDelete, DeleteNative
  <2>4. \A i \in Ids : i # t.id => databases'[i] = databases[i]
    <3>1. CASE t.id # None /\ CloseNative(t.id, Tail(tasks))
      <4>1. t.id \in Ids
        BY <1>3, <3>1 DEF Owned
      <4>. QED
        BY <3>1, <4>1, CloseNativeStep
    <3>. QED
      BY <2>3, <3>1
  <2>. QED
    BY <1>3, <2>1, <2>2, <2>4 DEF AnswerWorks, NativeElsewhere, mapVars
<1>. QED
  BY <1>3, <1>5, <1>6

(* A step of the plugin for one client leaves every other's handles work,  *)
(* and that client has none.                                               *)
LEMMA NativeKeepsWorking ==
  ASSUME TypeInvariant, OneIsolatePerPath, HelperInvariant, WorkingInvariant,
         NEW c \in Clients, Locked(c), NEW at \in Stages, NEW id \in Nat,
         CallAfter(c, at, id), NativeElsewhere(c), AnswerWorks(c)'
  PROVE  WorkingInvariant'
<1>1. /\ \A d \in Clients : d # c => op'[d] = op[d]
      /\ handles' = handles
  BY CallMoved
<1>2. ASSUME NEW d \in Clients, d # c PROVE HandlesWork(d)'
  <2>1. HandlesWork(d)
    BY DEF WorkingInvariant
  <2>2. \A x : Works(d, x) => Works(d, x)'
    BY <1>2, ElsewhereKept
  <2>3. ASSUME NEW i \in DOMAIN handles[d],
               handles[d][i].isOpen /\ ~handles[d][i].isClosed
        PROVE  Works(d, handles[d][i].id)'
    <3>1. PICK x : x = handles[d][i].id /\ Works(d, x)
      BY <2>1, <2>3 DEF HandlesWork
    <3>. QED
      BY <1>1, <2>2, <3>1
  <2>4. ASSUME At(d, "open", "answered"), op[d].id # None
        PROVE  Works(d, op[d].id)'
    <3>1. PICK x : x = op[d].id /\ Works(d, x)
      BY <2>1, <2>4 DEF HandlesWork
    <3>. QED
      BY <1>1, <1>2, <2>2, <3>1
  <2>5. op'[d] = op[d] /\ handles'[d] = handles[d]
    BY <1>1, <1>2
  <2>. QED
    BY <2>3, <2>4, <2>5 DEF HandlesWork, At, Locked
<1>3. HandlesWork(c)'
  <2>1. \A i \in DOMAIN handles[c] : ~(handles[c][i].isOpen /\ ~handles[c][i].isClosed)
    BY LockedNotLive DEF HelperInvariant
  <2>. QED
    BY <1>1, <2>1 DEF HandlesWork, AnswerWorks
<1>. QED
  BY <1>2, <1>3 DEF WorkingInvariant

(* A step of the Dart side makes live at most a handle that works. *)
LEMMA DartKeepsWorking ==
  ASSUME TypeInvariant, WorkingInvariant, NEW c \in Clients, DartElsewhere(c),
         \/ LiveBefore(c)
         \/ /\ At(c, "open", "answered") /\ op[c].id # None /\ ~Locked(c)'
            /\ \A i \in DOMAIN handles'[c] :
                 handles'[c][i].isOpen /\ ~handles'[c][i].isClosed =>
                   handles'[c][i].id = op[c].id
  PROVE  WorkingInvariant'
<1>1. \A d \in Clients : \A x : Works(d, x)' <=> Works(d, x)
  BY DEF DartElsewhere, Works, IsOpen, Path
<1>2. ASSUME NEW d \in Clients, d # c PROVE HandlesWork(d)'
  <2>1. HandlesWork(d) /\ op'[d] = op[d] /\ handles'[d] = handles[d]
    BY <1>2 DEF WorkingInvariant, DartElsewhere
  <2>. QED
    BY <2>1 DEF HandlesWork, At, Locked, Works, IsOpen, Path, DartElsewhere
<1>3. HandlesWork(c)
  BY DEF WorkingInvariant
<1>4. ~At(c, "open", "answered")'
  BY DEF DartElsewhere, At, Locked
<1>5. ASSUME NEW i \in DOMAIN handles'[c],
             handles'[c][i].isOpen /\ ~handles'[c][i].isClosed
      PROVE  Works(c, handles[c][i].id)'
  <2>1. Works(c, handles'[c][i].id)
    <3>1. CASE LiveBefore(c)
      BY <1>3, <1>5, <3>1 DEF LiveBefore, HandlesWork
    <3>2. CASE /\ At(c, "open", "answered") /\ op[c].id # None
               /\ handles'[c][i].id = op[c].id
      BY <1>3, <3>2 DEF HandlesWork
    <3>. QED
      BY <1>5, <3>1, <3>2
  <2>2. PICK x : x = handles'[c][i].id /\ Works(c, x)
    BY <2>1
  <2>. QED
    BY <1>1, <2>2 DEF Works
<1>. QED
  BY <1>2, <1>4, <1>5 DEF WorkingInvariant, HandlesWork

LEMMA WorkingStep ==
  ASSUME TypeInvariant, CarefulUse, OneIsolatePerPath, HelperInvariant,
         WorkingInvariant, [Next]_vars
  PROVE  WorkingInvariant'
<1>1. ASSUME NEW c \in Clients, Request(c) \/ Continue(c) PROVE WorkingInvariant'
  BY <1>1, RequestHelper, ContinueHelper, DartKeepsWorking DEF HelperInvariant
<1>2. ASSUME NEW c \in Clients, Plugin(c) PROVE WorkingInvariant'
  BY <1>2, PluginMoves, PluginWorks, NativeKeepsWorking
<1>3. CASE Worker
  <2>1. PICK c \in Clients : c = Head(tasks).client /\ Locked(c)
    BY <1>3, WorkerMoves
  <2>2. PICK id \in Nat : CallAfter(c, "answered", id)
    BY <1>3, <2>1, WorkerMoves
  <2>3. NativeElsewhere(c) /\ AnswerWorks(c)' /\ "answered" \in Stages
    BY <1>3, <2>1, WorkerWorks DEF Stages
  <2>. QED
    BY <2>1, <2>2, <2>3, NativeKeepsWorking
<1>4. CASE UNCHANGED vars
  BY <1>4 DEF vars, dartVars, mapVars, WorkingInvariant, HandlesWork, Works,
     IsOpen, Path, At, Locked
<1>. QED
  BY <1>1, <1>2, <1>3, <1>4 DEF Next

(* A handle that the application has open works until it closes it: what   *)
(* other paths open, close and delete, and the pool that is quit with the  *)
(* last database of the map, never take its database from the maps nor     *)
(* close its connection.  Assumed: no path is opened in two isolates, of   *)
(* which the second shares the first one's database and loses it when that *)
(* closes; and the application uses its databases carefully.               *)
THEOREM LiveHandlesWork ==
  ASSUME CarefulUse, OneIsolatePerPath
  PROVE  Spec => []LiveHandleWorks
<1>1. Init => WorkingInvariant
  <2>. SUFFICES ASSUME Init PROVE WorkingInvariant
    OBVIOUS
  <2>1. \A c \in Clients : DOMAIN handles[c] = {} /\ ~Locked(c)
    BY InitIdle
  <2>. QED
    BY <2>1 DEF WorkingInvariant, HandlesWork, At
<1>2. WorkingInvariant => LiveHandleWorks
  BY DEF WorkingInvariant, HandlesWork, Works, LiveHandleWorks, IsLive
<1>. QED
  BY <1>1, <1>2, WorkingStep, HelperAlways, TypeAlways, PTL DEF Spec
-----------------------------------------------------------------------------
(* One path in one isolate: an application with one database.  With two    *)
(* paths, the close that finds no database in the map quits the pool, and  *)
(* a close or an open posted for the other path is dropped with it.        *)
OneClient == \E c \in Clients : \A d \in Clients : d = c

(* The plugin works on the client's close or delete, or on its open.       *)
Working(c) == Locked(c) /\ op[c].at \in {"posting", "posted"}
Closing(c, id) == Working(c) /\ op[c].method # "open" /\ op[c].id = id

(* The map of databases holds at most the open instance of the path, and   *)
(* nothing while the plugin works: an open is only posted when there is no *)
(* instance, a close and a delete take it from the map first.  Every open  *)
(* connection is in the map or being closed; and as long as there is one   *)
(* there is a pool to close it, which keeps the task a client waits for.   *)
PoolServes(c) ==
  /\ \A id \in databaseMap : IsOpen(id) /\ id = singleInstancesByPath[Path(c)]
  /\ Working(c) => databaseMap = {}
  /\ \A id \in Ids : IsOpen(id) =>
       databaseWorkerPool /\ (id \in databaseMap \/ Closing(c, id))
  /\ \A i \in DOMAIN tasks :
       databaseWorkerPool /\ (tasks[i].method # "open" => tasks[i].id = op[c].id)
  /\ Locked(c) /\ op[c].at = "posted" => tasks # <<>>

ServingInvariant == \A c \in Clients : PoolServes(c)

(* The only client has a task only while it waits for it.                  *)
LEMMA NoTask ==
  ASSUME TypeInvariant, NEW c \in Clients, \A d \in Clients : d = c,
         ~Locked(c) \/ op[c].at # "posted"
  PROVE  DOMAIN tasks = {}
BY TaskTyped

(* A step of the Dart side.                                                *)
LEMMA DartIdle ==
  ASSUME TypeInvariant, NEW c \in Clients, Request(c) \/ Continue(c)
  PROVE  /\ UNCHANGED <<databases, mapVars, poolVars>>
         /\ ~Working(c) /\ ~Working(c)'
<1>0. op \in [Clients -> {Unlocked} \cup Calls]
  BY DEF TypeInvariant
<1>1. UNCHANGED <<databases, mapVars, poolVars>>
  BY DEF Request, Continue, OpenDatabase, DeleteDatabase, CloseDatabase, Opened,
     OpenFailed, AbandonOpen, DoCloseOpening, Abandoned, Downgrade, DowngradeDelete,
     DowngradeReopen, Closed, Deleted
<1>2. CASE Request(c)
  <2>1. ~Locked(c)
    BY <1>2, RequestStep
  <2>2. \/ \E goal, method, db, id : op' = [op EXCEPT ![c] = Call(goal, method, db, id)]
        \/ op' = op
    <3>1. CASE OpenDatabase(c)
      BY <3>1 DEF OpenDatabase, Lock
    <3>2. CASE DeleteDatabase(c)
      BY <3>2 DEF DeleteDatabase, Lock
    <3>3. ASSUME NEW db, CloseDatabase(c, db)
          PROVE  op' = op \/ \E id : Lock(c, Call("close", "close", db, id))
      BY <3>3 DEF CloseDatabase
    <3>. QED
      BY <1>2, <3>1, <3>2, <3>3 DEF Request, Lock
  <2>. QED
    BY <1>0, <1>1, <2>1, <2>2 DEF Working, Locked, Call
<1>3. CASE Continue(c)
  <2>1. Locked(c) /\ op[c].at = "answered"
    BY <1>3 DEF Continue, Opened, OpenFailed, AbandonOpen, Abandoned, Downgrade,
       DowngradeDelete, DowngradeReopen, Closed, Deleted, Answered, At
  <2>2. \/ \E goal, method, id : Send(c, goal, method, id)
        \/ Unlock(c)
    BY <1>3 DEF Continue, Opened, OpenFailed, AbandonOpen, DoCloseOpening, Abandoned,
       Downgrade, DowngradeDelete, DowngradeReopen, Closed, Deleted
  <2>3. CASE Unlock(c)
    BY <1>0, <1>1, <2>1, <2>3 DEF Working, Locked, Unlock
  <2>4. ASSUME NEW goal, NEW method, NEW id, Send(c, goal, method, id)
        PROVE  op'[c].at = "sent"
    BY <1>0, <2>4 DEF Send, Call
  <2>. QED
    BY <1>1, <2>1, <2>2, <2>3, <2>4 DEF Working
<1>. QED
  BY <1>2, <1>3

LEMMA DartServes ==
  ASSUME TypeInvariant, NEW c \in Clients, \A d \in Clients : d = c,
         PoolServes(c), Request(c) \/ Continue(c)
  PROVE  PoolServes(c)'
<1>1. /\ databases' = databases /\ databaseMap' = databaseMap
      /\ singleInstancesByPath' = singleInstancesByPath
      /\ databaseWorkerPool' = databaseWorkerPool /\ tasks' = tasks
      /\ ~Working(c) /\ ~Working(c)'
  BY DartIdle DEF mapVars, poolVars
<1>2. DOMAIN tasks = {}
  BY <1>1, NoTask DEF Working
<1>3. ~(Locked(c)' /\ op'[c].at = "posted")
  BY <1>1 DEF Working
<1>4. \A id \in Ids : IsOpen(id) => databaseWorkerPool /\ id \in databaseMap
  BY <1>1 DEF PoolServes, Closing
<1>5. \A id \in databaseMap : IsOpen(id) /\ id = singleInstancesByPath[Path(c)]
  BY DEF PoolServes
<1>. QED
  BY <1>1, <1>2, <1>3, <1>4, <1>5 DEF PoolServes, IsOpen, Ids, Path

(* Without an open instance of its path there is no open database.         *)
LEMMA NoneFound ==
  ASSUME TypeInvariant, NEW c \in Clients, PoolServes(c), ~Working(c),
         OpenedInstance(Path(c)) = None
  PROVE  databaseMap = {} /\ \A id \in Ids : ~IsOpen(id)
<1>1. ASSUME NEW id \in databaseMap PROVE FALSE
  <2>1. id \in Ids /\ id # None
    BY ElementSeq DEF TypeInvariant, Ids, None
  <2>2. IsOpen(id) /\ id = singleInstancesByPath[Path(c)]
    BY DEF PoolServes
  <2>. QED
    BY <2>1, <2>2 DEF OpenedInstance
<1>. QED
  BY <1>1 DEF PoolServes, Closing

(* Taking the one database from the map.                                   *)
LEMMA RemovedAlone ==
  ASSUME TypeInvariant, NEW c \in Clients, PoolServes(c), NEW id \in databaseMap,
         Owned(c, id), RemoveFromMaps(c, id), databases' = databases
  PROVE  databaseMap' = {} /\ \A i \in databaseMap : i = id
<1>1. databaseMap' = databaseMap \ {id}
  BY DEF RemoveFromMaps
<1>2. \A i \in databaseMap : i = id
  BY DEF PoolServes
<1>. QED
  BY <1>1, <1>2

(* The plugin's handlers.                                                  *)
LEMMA PluginServes ==
  ASSUME TypeInvariant, TypeInvariant', NEW c \in Clients, \A d \in Clients : d = c,
         PoolServes(c), Plugin(c)
  PROVE  PoolServes(c)'
<1>. DEFINE m == op[c].method
<1>0. /\ Locked(c) /\ op[c].at \in {"sent", "posting"} /\ UNCHANGED dartVars
      /\ op[c].at # "posted" /\ DOMAIN tasks = {} /\ op[c].method \in Methods
  <2>1. Locked(c) /\ op[c].at \in {"sent", "posting"} /\ UNCHANGED dartVars
    BY PluginStep DEF Plugin, OnOpenDatabaseCall, OnCloseDatabaseCall,
       OnDeleteDatabaseCall, Post
  <2>. QED
    BY <2>1, NoTask, CallTyped, CallRecords
<1>1. PICK id \in Nat : id = op[c].id /\ Owned(c, id)
  BY <1>0, CallTyped
<1>2. PICK found \in Nat : /\ found = OpenedInstance(Path(c)) /\ Owned(c, found)
                           /\ found # None => found \in databaseMap
  BY InstanceFound
<1>3. /\ None \in Nat /\ "sent" \in Stages /\ "posting" \in Stages
      /\ "posted" \in Stages /\ "answered" \in Stages
  BY DEF None, Stages
<1>4. ASSUME NEW at \in Stages, NEW i \in Nat, CallAfter(c, at, i)
      PROVE  /\ Locked(c)' /\ op'[c].method = m /\ op'[c].at = at /\ op'[c].id = i
             /\ at # "posted" => DOMAIN tasks' = {}
  <2>1. Locked(c)' /\ op'[c].method = m /\ op'[c].at = at /\ op'[c].id = i
    BY <1>0, <1>4, CallMoved DEF Locked
  <2>2. \A d \in Clients : d = c
    OBVIOUS
  <2>3. at # "posted" => DOMAIN tasks' = {}
    <3>1. ASSUME NEW j \in DOMAIN tasks' PROVE tasks'[j].client = c /\ op'[c].at = "posted"
      <4>1. tasks' \in Seq(Task) /\ TaskFits(tasks[j])'
        BY <3>1 DEF TypeInvariant
      <4>2. tasks'[j].client = c
        <5>1. tasks'[j] \in Task
          BY <3>1, <4>1, ElementSeq
        <5>. QED
          BY <2>2, <5>1 DEF Task
      <4>. QED
        BY <4>1, <4>2 DEF TaskFits, At
    <3>. QED
      BY <2>1, <3>1
  <2>. QED
    BY <2>1, <2>3
<1>5. CASE OnOpenDatabaseCall(c)
  <2>0. op[c].at = "sent" /\ UNCHANGED mapVars /\ ~Working(c) /\ m = "open"
    BY <1>5 DEF OnOpenDatabaseCall, Handles, At, Working
  <2>1. CASE Answer(c, found) /\ UNCHANGED <<databases, poolVars>>
    <3>1. CallAfter(c, "answered", found)
      BY <1>0, <2>1 DEF Answer, CallAfter
    <3>2. /\ ~Working(c)' /\ DOMAIN tasks' = {}
          /\ ~(op'[c].at = "posted")
      BY <1>3, <1>4, <3>1 DEF Working
    <3>3. \A i \in Ids : IsOpen(i) => databaseWorkerPool /\ i \in databaseMap
      BY <2>0 DEF PoolServes, Closing
    <3>4. \A i \in databaseMap : IsOpen(i) /\ i = singleInstancesByPath[Path(c)]
      BY DEF PoolServes
    <3>. QED
      BY <2>0, <2>1, <3>2, <3>3, <3>4 DEF PoolServes, IsOpen, Ids, Path, mapVars, poolVars
  <2>2. CASE /\ found = None
             /\ databases' = Append(databases, NewDatabase(Path(c)))
             /\ databaseWorkerPool' = TRUE
             /\ tasks' = Posted(c, Len(databases) + 1)
             /\ op' = [op EXCEPT ![c].at = "posted"]
    <3>1. PICK n : n = Len(databases) + 1
      OBVIOUS
    <3>2. databaseMap' = {} /\ \A i \in Ids : ~IsOpen(i)
      BY <1>2, <2>0, <2>2, NoneFound DEF mapVars
    <3>3. \A i \in Ids' : ~IsOpen(i)'
      <4>1. /\ Ids' = Ids \cup {n} /\ databases'[n].connection = "new"
            /\ \A i \in Ids : databases'[i] = databases[i]
        BY <2>2, <3>1, DatabaseAdded, FactoryAssumption DEF Path
      <4>. QED
        BY <3>2, <4>1 DEF IsOpen
    <3>4. op'[c].method = "open"
      BY <1>0, <1>1, <1>3, <1>4, <2>0, <2>2, MovedOnly
    <3>5. tasks' # <<>> /\ \A i \in DOMAIN tasks' : tasks'[i].method = "open"
      <4>. DEFINE t == [client |-> c, method |-> m, id |-> n]
      <4>1. t \in [client : {c}, method : {"open"}, id : {n}] /\ t.method = "open"
        BY <2>0
      <4>2. tasks' = Append(tasks, t)
        BY <2>2, <3>1 DEF Posted
      <4>3. tasks \in Seq({t})
        BY <1>0 DEF TypeInvariant
      <4>. HIDE DEF t
      <4>4. tasks' \in Seq({t}) /\ tasks' # <<>>
        BY <4>2, <4>3
      <4>. QED
        BY <4>1, <4>4
    <3>. QED
      BY <2>2, <3>2, <3>3, <3>5 DEF PoolServes
  <2>. QED
    BY <1>2, <1>5, <2>1, <2>2 DEF OnOpenDatabaseCall
<1>6. CASE OnCloseDatabaseCall(c)
  <2>0. /\ op[c].at = "sent" /\ ~Working(c) /\ m = "close"
        /\ databases' = databases /\ tasks' = tasks
        /\ databaseWorkerPool' = databaseWorkerPool
    BY <1>6 DEF OnCloseDatabaseCall, Handles, At, Working, poolVars
  <2>1. \A i \in Ids : IsOpen(i) => databaseWorkerPool /\ i \in databaseMap
    BY <2>0 DEF PoolServes, Closing
  <2>2. CASE Answer(c, None) /\ UNCHANGED mapVars
    <3>1. CallAfter(c, "answered", None)
      BY <1>0, <2>2 DEF Answer, CallAfter
    <3>2. ~Working(c)' /\ ~(op'[c].at = "posted")
      BY <1>3, <1>4, <3>1 DEF Working
    <3>3. \A i \in databaseMap : IsOpen(i) /\ i = singleInstancesByPath[Path(c)]
      BY DEF PoolServes
    <3>. QED
      BY <1>0, <2>0, <2>1, <2>2, <3>2, <3>3 DEF PoolServes, IsOpen, Ids, Path, mapVars
  <2>3. CASE /\ id \in databaseMap /\ RemoveFromMaps(c, id)
             /\ op' = [op EXCEPT ![c].at = "posting"]
    <3>1. databaseMap' = {} /\ \A i \in databaseMap : i = id
      BY <1>1, <2>0, <2>3, RemovedAlone
    <3>2. CallAfter(c, "posting", id)
      BY <1>0, <1>1, <1>3, <2>3, MovedOnly
    <3>3. /\ Locked(c)' /\ op'[c].method = "close" /\ op'[c].at = "posting"
          /\ op'[c].id = id
      BY <1>3, <1>4, <2>0, <3>2
    <3>4. Closing(c, id)'
      BY <3>3 DEF Closing, Working
    <3>5. \A i \in Ids : IsOpen(i) => databaseWorkerPool /\ i = id
      BY <2>1, <3>1
    <3>. QED
      BY <1>0, <2>0, <3>1, <3>3, <3>4, <3>5 DEF PoolServes, IsOpen, Ids
  <2>. QED
    BY <1>1, <1>6, <2>2, <2>3 DEF OnCloseDatabaseCall
<1>7. CASE OnDeleteDatabaseCall(c)
  <2>0. /\ op[c].at = "sent" /\ ~Working(c) /\ m = "delete"
        /\ databases' = databases /\ tasks' = tasks
        /\ databaseWorkerPool' = databaseWorkerPool
        /\ CallAfter(c, "posting", found)
    BY <1>0, <1>2, <1>7
       DEF OnDeleteDatabaseCall, Handles, At, Working, poolVars, CallAfter
  <2>1. \A i \in Ids : IsOpen(i) => databaseWorkerPool /\ i \in databaseMap
    BY <2>0 DEF PoolServes, Closing
  <2>2. /\ Locked(c)' /\ op'[c].method = "delete" /\ op'[c].at = "posting"
        /\ op'[c].id = found
    BY <1>3, <1>4, <2>0
  <2>3. Closing(c, found)'
    BY <2>2 DEF Closing, Working
  <2>4. databaseMap' = {} /\ \A i \in databaseMap : i = found
    <3>1. CASE found # None /\ RemoveFromMaps(c, found)
      BY <1>2, <2>0, <3>1, RemovedAlone
    <3>2. CASE found = None /\ UNCHANGED mapVars
      BY <1>2, <2>0, <3>2, NoneFound DEF mapVars
    <3>. QED
      BY <1>2, <1>7, <3>1, <3>2 DEF OnDeleteDatabaseCall
  <2>5. \A i \in Ids : IsOpen(i) => databaseWorkerPool /\ i = found
    BY <2>1, <2>4
  <2>. QED
    BY <1>0, <2>0, <2>2, <2>3, <2>4, <2>5 DEF PoolServes, IsOpen, Ids
<1>8. CASE Post(c)
  <2>0. /\ op[c].at = "posting" /\ UNCHANGED mapVars /\ Working(c) /\ m # "open"
        /\ databaseMap = {} /\ databaseMap' = {}
    <3>1. op[c].at = "posting" /\ UNCHANGED mapVars /\ Working(c) /\ m # "open"
      BY <1>0, <1>8 DEF Post, Working, TypeInvariant, CallFits
    <3>. QED
      BY <3>1 DEF PoolServes, mapVars
  <2>1. \A i \in Ids : IsOpen(i) => databaseWorkerPool /\ i = id
    BY <1>1, <2>0 DEF PoolServes, Closing
  <2>2. CASE /\ databaseWorkerPool
             /\ tasks' = Posted(c, id)
             /\ op' = [op EXCEPT ![c].at = "posted"]
             /\ UNCHANGED <<databases, databaseWorkerPool>>
    <3>1. CallAfter(c, "posted", id)
      BY <1>0, <1>1, <1>3, <2>2, MovedOnly
    <3>2. /\ Locked(c)' /\ op'[c].method = m /\ op'[c].at = "posted"
          /\ op'[c].id = id
      BY <1>3, <1>4, <3>1
    <3>3. Closing(c, id)'
      BY <2>0, <3>2 DEF Closing, Working
    <3>4. tasks' # <<>> /\ \A i \in DOMAIN tasks' : tasks'[i].id = id
      <4>. DEFINE t == [client |-> c, method |-> m, id |-> id]
      <4>1. t.id = id
        OBVIOUS
      <4>2. tasks' = Append(tasks, t)
        BY <2>2 DEF Posted
      <4>3. tasks \in Seq({t})
        BY <1>0 DEF TypeInvariant
      <4>. HIDE DEF t
      <4>4. tasks' \in Seq({t}) /\ tasks' # <<>>
        BY <4>2, <4>3
      <4>. QED
        BY <4>1, <4>4
    <3>. QED
      BY <2>0, <2>1, <2>2, <3>2, <3>3, <3>4 DEF PoolServes, IsOpen, Ids
  <2>3. CASE ~databaseWorkerPool /\ Answer(c, None)
    <3>1. CallAfter(c, "answered", None)
      BY <1>0, <2>3 DEF Answer, CallAfter
    <3>2. /\ ~Working(c)' /\ DOMAIN tasks' = {} /\ ~(op'[c].at = "posted")
      BY <1>3, <1>4, <3>1 DEF Working
    <3>3. \A i \in Ids : ~IsOpen(i)
      BY <2>1, <2>3
    <3>4. \A i \in Ids' : ~IsOpen(i)'
      <4>1. CASE id # None /\ CloseNative(id, tasks)
        <5>1. id \in Ids
          BY <1>1, <4>1 DEF Owned
        <5>2. /\ Ids' = Ids /\ databases'[id].connection = "closed"
              /\ \A i \in Ids : i # id => databases'[i] = databases[i]
          BY <4>1, <5>1, CloseNativeStep
        <5>. QED
          BY <3>3, <5>2 DEF IsOpen
      <4>2. CASE databases' = databases
        BY <3>3, <4>2 DEF IsOpen, Ids
      <4>. QED
        BY <1>1, <1>8, <2>3, <4>1, <4>2 DEF Post, DeleteNative
    <3>. QED
      BY <2>0, <3>2, <3>4 DEF PoolServes
  <2>. QED
    BY <1>1, <1>8, <2>2, <2>3 DEF Post
<1>. QED
  BY <1>5, <1>6, <1>7, <1>8 DEF Plugin

(* The pool's thread.                                                      *)
LEMMA WorkerServes ==
  ASSUME TypeInvariant, TypeInvariant', NEW c \in Clients, \A d \in Clients : d = c,
         PoolServes(c), Worker
  PROVE  PoolServes(c)'
<1>0. tasks # <<>>
  BY WorkerMoves
<1>t. PICK t \in Task : t = Head(tasks)
  BY <1>0, FirstTask
<1>1. RunOpen(t) \/ RunClose(t) \/ RunDelete(t)
  BY <1>t DEF Worker
<1>2. /\ t.client = c /\ op[c].method = t.method /\ Locked(c) /\ op[c].at = "posted"
      /\ Owned(c, t.id) /\ t.id \in Nat /\ None \in Nat
      /\ t.method # "delete" => t.id # None
  <2>1. /\ t.client \in Clients /\ t.id \in Nat /\ TaskFits(t) /\ Locked(t.client)
        /\ op[t.client].at = "posted" /\ op[t.client].method = t.method
    BY <1>0, <1>t, FirstTask
  <2>2. t.client = c
    BY <2>1
  <2>. QED
    BY <2>1, <2>2 DEF TaskFits, None
<1>3. databaseWorkerPool /\ (t.method # "open" => t.id = op[c].id)
  BY <1>0, <1>t, FirstTask DEF PoolServes
<1>4. Working(c) /\ databaseMap = {}
  BY <1>2 DEF Working, PoolServes
<1>5. ASSUME NEW i \in Ids, IsOpen(i) PROVE t.method # "open" /\ i = t.id
  BY <1>2, <1>3, <1>4, <1>5 DEF PoolServes, Closing
<1>6. ASSUME NEW id \in {None, t.id}, Answer(c, id)
      PROVE  ~Working(c)' /\ DOMAIN tasks' = {} /\ ~(op'[c].at = "posted")
  <2>1. CallAfter(c, "answered", id) /\ "answered" \in Stages /\ id \in Nat
    BY <1>1, <1>2, <1>6 DEF RunOpen, RunClose, RunDelete, Answer, CallAfter, Stages
  <2>2. op'[c].at = "answered"
    BY <1>2, <2>1, CallMoved
  <2>3. ASSUME NEW j \in DOMAIN tasks' PROVE FALSE
    <3>1. tasks' \in Seq(Task) /\ TaskFits(tasks[j])'
      BY <2>3 DEF TypeInvariant
    <3>2. tasks'[j] \in Task
      BY <2>3, <3>1, ElementSeq
    <3>3. tasks'[j].client = c
      BY <3>2 DEF Task
    <3>. QED
      BY <2>2, <3>1, <3>3 DEF TaskFits, At
  <2>. QED
    BY <2>2, <2>3 DEF Working
<1>7. CASE RunOpen(t)
  <2>1. t.method = "open" /\ t.id \in Ids
    BY <1>2, <1>7 DEF RunOpen, Owned
  <2>2. \A i \in Ids : ~IsOpen(i)
    BY <1>5, <2>1
  <2>3. CASE /\ databases' = [databases EXCEPT ![t.id].connection = "open"]
             /\ databaseMap' = databaseMap \cup {t.id}
             /\ singleInstancesByPath' = [singleInstancesByPath EXCEPT ![Path(c)] = t.id]
             /\ Answer(c, t.id)
    <3>1. ~Working(c)' /\ DOMAIN tasks' = {} /\ ~(op'[c].at = "posted")
      BY <1>6, <2>3
    <3>2. /\ DatabasesGrow /\ Ids' = Ids /\ databases'[t.id].connection = "open"
          /\ \A i \in Ids : i # t.id => databases'[i] = databases[i]
      BY <2>1, <2>3, DatabaseMarked
    <3>3. singleInstancesByPath'[Path(c)] = t.id
      BY <1>2, <2>1, <2>3, <3>2, MapsAdded
    <3>4. databaseMap' = {t.id} /\ databaseWorkerPool'
      BY <1>3, <1>4, <1>7, <2>3 DEF RunOpen
    <3>5. \A i \in Ids' : IsOpen(i)' => i \in databaseMap'
      BY <2>2, <3>2, <3>4 DEF IsOpen
    <3>. QED
      BY <3>1, <3>2, <3>3, <3>4, <3>5 DEF PoolServes, IsOpen, Path
  <2>4. CASE Answer(c, None) /\ UNCHANGED <<databases, mapVars>>
    <3>1. ~Working(c)' /\ DOMAIN tasks' = {} /\ ~(op'[c].at = "posted")
      BY <1>6, <2>4
    <3>2. databaseMap' = {} /\ \A i \in Ids' : ~IsOpen(i)'
      BY <1>4, <2>2, <2>4 DEF IsOpen, Ids, mapVars
    <3>. QED
      BY <3>1, <3>2 DEF PoolServes
  <2>. QED
    BY <1>2, <1>7, <2>3, <2>4 DEF RunOpen
<1>8. CASE RunClose(t) \/ RunDelete(t)
  <2>1. Answer(c, None) /\ UNCHANGED mapVars
    BY <1>2, <1>8 DEF RunClose, RunDelete
  <2>2. ~Working(c)' /\ DOMAIN tasks' = {} /\ ~(op'[c].at = "posted")
    BY <1>6, <2>1
  <2>3. \A i \in Ids' : ~IsOpen(i)'
    <3>1. CASE t.id # None /\ CloseNative(t.id, Tail(tasks))
      <4>1. t.id \in Ids
        BY <1>2, <3>1 DEF Owned
      <4>2. /\ Ids' = Ids /\ databases'[t.id].connection = "closed"
            /\ \A i \in Ids : i # t.id => databases'[i] = databases[i]
        BY <3>1, <4>1, CloseNativeStep
      <4>. QED
        BY <1>5, <4>2 DEF IsOpen
    <3>2. CASE t.id = None /\ databases' = databases
      <4>1. None \notin Ids
        BY ElementSeq DEF TypeInvariant, Ids, None
      <4>. QED
        BY <1>5, <3>2, <4>1 DEF IsOpen, Ids
    <3>. QED
      BY <1>2, <1>8, <3>1, <3>2 DEF RunClose, RunDelete, DeleteNative
  <2>4. databaseMap' = {}
    BY <1>4, <2>1 DEF mapVars
  <2>. QED
    BY <2>2, <2>3, <2>4 DEF PoolServes
<1>. QED
  BY <1>1, <1>7, <1>8

LEMMA ServingStep ==
  ASSUME TypeInvariant, TypeInvariant', OneClient, ServingInvariant, [Next]_vars
  PROVE  ServingInvariant'
<1>1. PICK c \in Clients : \A d \in Clients : d = c
  BY DEF OneClient
<1>2. PoolServes(c)
  BY DEF ServingInvariant
<1>3. CASE \E d \in Clients : Request(d) \/ Continue(d) \/ Plugin(d)
  <2>1. Request(c) \/ Continue(c) \/ Plugin(c)
    BY <1>1, <1>3
  <2>2. PoolServes(c)'
    BY <1>1, <1>2, <2>1, DartServes, PluginServes
  <2>. QED
    BY <1>1, <2>2 DEF ServingInvariant
<1>4. CASE Worker
  <2>1. PoolServes(c)'
    BY <1>1, <1>2, <1>4, WorkerServes
  <2>. QED
    BY <1>1, <2>1 DEF ServingInvariant
<1>5. CASE UNCHANGED vars
  BY <1>5 DEF ServingInvariant, PoolServes, Working, Closing, Locked, IsOpen, Ids,
     Path, vars, mapVars, poolVars
<1>. QED
  BY <1>3, <1>4, <1>5 DEF Next

LEMMA ServingAlways ==
  ASSUME OneClient
  PROVE  Spec => []ServingInvariant
<1>1. Init => ServingInvariant
  <2>. SUFFICES ASSUME Init PROVE ServingInvariant
    OBVIOUS
  <2>1. \A c \in Clients : ~Locked(c)
    BY InitIdle
  <2>2. DOMAIN tasks = {} /\ Ids = {} /\ databaseMap = {}
    BY EmptySeq DEF Init, Ids
  <2>. QED
    BY <2>1, <2>2 DEF ServingInvariant, PoolServes, Working
<1>2. TypeInvariant /\ TypeInvariant' /\ ServingInvariant /\ [Next]_vars => ServingInvariant'
  BY ServingStep
<1>. QED
  BY <1>1, <1>2, TypeAlways, PTL DEF Spec

(* An open connection that the plugin has forgotten is being closed: the   *)
(* task is there, or the step that posts it.                               *)
LEMMA ServedNotLost ==
  ASSUME TypeInvariant, OneClient, ServingInvariant
  PROVE  NoConnectionLost
<1>1. PICK c \in Clients : \A d \in Clients : d = c
  BY DEF OneClient
<1>2. PoolServes(c)
  BY DEF ServingInvariant
<1>3. ASSUME NEW id \in Ids, IsOpen(id), id \notin databaseMap PROVE ToBeClosed(id)
  <2>1. Closing(c, id)
    BY <1>2, <1>3 DEF PoolServes
  <2>2. CASE op[c].at = "posting"
    BY <2>1, <2>2 DEF Closing, Working, ToBeClosed
  <2>3. CASE op[c].at = "posted"
    <3>1. tasks # <<>>
      BY <1>2, <2>1, <2>3 DEF PoolServes, Closing, Working
    <3>2. /\ 1 \in DOMAIN tasks /\ tasks[1].client \in Clients
          /\ op[tasks[1].client].method = tasks[1].method
      BY <3>1, FirstTask
    <3>3. tasks[1].method = op[c].method
      BY <1>1, <3>2
    <3>4. tasks[1].method # "open" /\ tasks[1].id = id
      BY <1>2, <2>1, <3>2, <3>3 DEF PoolServes, Closing
    <3>. QED
      BY <3>2, <3>4 DEF ToBeClosed
  <2>. QED
    BY <2>1, <2>2, <2>3 DEF Closing, Working
<1>. QED
  BY <1>3 DEF NoConnectionLost

(* Two open connections would be one: both in the map, or both the one     *)
(* that is being closed while the map is empty.                            *)
LEMMA ServedOnce ==
  ASSUME OneClient, ServingInvariant
  PROVE  OneConnection
<1>1. PICK c \in Clients : PoolServes(c)
  BY DEF OneClient, ServingInvariant
<1>. QED
  BY <1>1 DEF PoolServes, Closing, OneConnection

(* The native side never has a connection open without a way to close it,  *)
(* whatever an application with one database does with it: a handle closed *)
(* again, the open database deleted, a downgrade that deletes, opens and   *)
(* callbacks that fail.                                                    *)
THEOREM NothingLost ==
  ASSUME OneClient
  PROVE  Spec => []NoConnectionLost
<1>1. TypeInvariant /\ ServingInvariant => NoConnectionLost
  BY ServedNotLost
<1>. QED
  BY <1>1, ServingAlways, TypeAlways, PTL

(* It never has two connections open for one file, even where the          *)
(* application ends up with two Database objects of it.                    *)
THEOREM OneConnectionAtATime ==
  ASSUME OneClient
  PROVE  Spec => []OneConnection
<1>1. ServingInvariant => OneConnection
  BY ServedOnce
<1>. QED
  BY <1>1, ServingAlways, PTL
=============================================================================
