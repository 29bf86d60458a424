---------------------------- MODULE DatabaseFactory ----------------------------
(***************************************************************************)
(* Opening, closing and deleting single-instance databases: the Dart       *)
(* factory (factory_mixin.dart, SqfliteDatabaseOpenHelper, doOpen and      *)
(* _closeDatabase of database_mixin.dart) above the Android plugin         *)
(* (SqflitePlugin.java with the pool of one thread, the default).          *)
(*                                                                         *)
(* A client is one path in one isolate.  The named lock of the path runs   *)
(* its open, close and delete one at a time, each with one method call in  *)
(* flight; other paths and other isolates only meet it in the plugin,      *)
(* whose method calls one background task queue handles one at a time.     *)
(***************************************************************************)
EXTENDS Integers, Sequences

CONSTANTS
  Clients, Paths, PathOf,
  MaxOpens,     \* bound on the Database objects a client creates
  Usage         \* what applications, callbacks and SQLite may do

ASSUME FactoryAssumption ==
  /\ PathOf \in [Clients -> Paths]
  /\ MaxOpens \in Nat
  /\ Usage \subseteq {"closeAgain", "delete", "deleteOpened", "openFails",
                      "callbackFails", "downgradeDelete"}

VARIABLES
  \* Dart
  databaseOpenHelper,     \* databaseOpenHelpers[path], the helper's number
  handles,                \* the Database objects of the client
  op,                     \* the operation that holds the path's lock
  \* SqflitePlugin.java
  databases,              \* the Database objects, their number is their id
  databaseMap,
  singleInstancesByPath,
  databaseWorkerPool,     \* a pool exists
  tasks                   \* what is posted to it

dartVars == <<databaseOpenHelper, handles>>
mapVars == <<databaseMap, singleInstancesByPath>>
poolVars == <<databaseWorkerPool, tasks>>
vars == <<dartVars, op, databases, mapVars, poolVars>>

-----------------------------------------------------------------------------
None == 0                   \* no helper, no id, Java's null

(* Why the client makes its call: "retry" is the second half of a downgrade *)
(* that deletes; and how far the call has come.                             *)
Goals == {"open", "abandon", "downgrade", "retry", "close", "delete"}
Methods == {"open", "close", "delete"}
Stages == {"sent", "posting", "posted", "answered"}

Unlocked == [goal |-> "none"]
Call(goal, method, db, id) ==
  [goal |-> goal, method |-> method, db |-> db, id |-> id, at |-> "sent"]

Init ==
  /\ databaseOpenHelper = [c \in Clients |-> None]
  /\ handles = [c \in Clients |-> <<>>]
  /\ op = [c \in Clients |-> Unlocked]
  /\ databases = <<>>
  /\ databaseMap = {}
  /\ singleInstancesByPath = [p \in Paths |-> None]
  /\ databaseWorkerPool = FALSE /\ tasks = <<>>

Locked(c) == op[c] # Unlocked
At(c, method, stage) ==
  Locked(c) /\ op[c].method = method /\ op[c].at = stage
Answered(c, goal, method) == At(c, method, "answered") /\ op[c].goal = goal

Lock(c, call) == ~Locked(c) /\ op' = [op EXCEPT ![c] = call]
Send(c, goal, method, id) ==
  op' = [op EXCEPT ![c] = Call(goal, method, @.db, id)]
Unlock(c) == op' = [op EXCEPT ![c] = Unlocked]
Answer(c, id) == op' = [op EXCEPT ![c].at = "answered", ![c].id = id]

SetHelper(c, db) ==
  databaseOpenHelper' = [databaseOpenHelper EXCEPT ![c] = db]

-----------------------------------------------------------------------------
(* The Dart factory. *)

(* A Database object and its helper: isOpen is the helper's.               *)
NewHandle == [isOpen |-> FALSE, isClosed |-> FALSE, id |-> None]
MarkHandle(c, db, handle) == handles' = [handles EXCEPT ![c][db] = handle]

(* Fault injected: an existing helper is not looked for. *)
OpenDatabaseUncached(c) ==
  /\ Len(handles[c]) < MaxOpens
  /\ SetHelper(c, Len(handles[c]) + 1)
  /\ handles' = [handles EXCEPT ![c] = Append(@, NewHandle)]
  /\ Lock(c, Call("open", "open", Len(handles[c]) + 1, None))
  /\ UNCHANGED <<databases, mapVars, poolVars>>

(* openDatabase without a helper; with one, the handle it holds is         *)
(* returned and nothing changes.                                           *)
OpenDatabase(c) ==
  /\ databaseOpenHelper[c] = None
  /\ Len(handles[c]) < MaxOpens
  /\ SetHelper(c, Len(handles[c]) + 1)
  /\ handles' = [handles EXCEPT ![c] = Append(@, NewHandle)]
  /\ Lock(c, Call("open", "open", Len(handles[c]) + 1, None))
  /\ UNCHANGED <<databases, mapVars, poolVars>>

(* openDatabase returns the handle to the application. *)
Opened(c) ==
  /\ Answered(c, "open", "open") \/ Answered(c, "retry", "open")
  /\ op[c].id # None
  /\ MarkHandle(c, op[c].db,
                [isOpen |-> TRUE, isClosed |-> FALSE, id |-> op[c].id])
  /\ Unlock(c)
  /\ UNCHANGED <<databaseOpenHelper, databases, mapVars, poolVars>>

(* The native open failed: the first open removes the helper. *)
OpenFailed(c) ==
  /\ Answered(c, "open", "open") /\ op[c].id = None
  /\ SetHelper(c, None) /\ Unlock(c)
  /\ UNCHANGED <<handles, databases, mapVars, poolVars>>

(* doClose of a database that is still being opened. *)
DoCloseOpening(c, goal, id) ==
  /\ MarkHandle(c, op[c].db, [isOpen |-> FALSE, isClosed |-> TRUE, id |-> id])
  /\ Send(c, goal, "close", id)
  /\ UNCHANGED <<databaseOpenHelper, databases, mapVars, poolVars>>

(* onConfigure, onCreate, ... or onOpen threw, or the second native open   *)
(* of a downgrade failed: close and give up.                               *)
AbandonOpen(c) ==
  \/ /\ "callbackFails" \in Usage
     /\ Answered(c, "open", "open") \/ Answered(c, "retry", "open")
     /\ op[c].id # None
     /\ DoCloseOpening(c, "abandon", op[c].id)
  \/ /\ Answered(c, "retry", "open") /\ op[c].id = None
     /\ DoCloseOpening(c, "abandon", handles[c][op[c].db].id)

Abandoned(c) ==
  /\ Answered(c, "abandon", "close")
  /\ SetHelper(c, None) /\ Unlock(c)
  /\ UNCHANGED <<handles, databases, mapVars, poolVars>>

(* onDatabaseDowngradeDoDelete: close, delete under the same lock, which   *)
(* removes the helper, and open again.                                     *)
Downgrade(c) ==
  /\ "downgradeDelete" \in Usage
  /\ Answered(c, "open", "open") /\ op[c].id # None
  /\ DoCloseOpening(c, "downgrade", op[c].id)

DowngradeDelete(c) ==
  /\ Answered(c, "downgrade", "close")
  /\ MarkHandle(c, op[c].db, [handles[c][op[c].db] EXCEPT !.isClosed = FALSE])
  /\ SetHelper(c, None)
  /\ Send(c, "downgrade", "delete", None)
  /\ UNCHANGED <<databases, mapVars, poolVars>>

DowngradeReopen(c) ==
  /\ Answered(c, "downgrade", "delete")
  /\ Send(c, "retry", "open", None)
  /\ UNCHANGED <<dartVars, databases, mapVars, poolVars>>

(* close of a handle the application was given; closed handles again if    *)
(* it holds several references.                                            *)
CloseDatabase(c, db) ==
  LET handle == handles[c][db] IN
  \/ /\ handle.isOpen
     /\ Lock(c, Call("close", "close", db, handle.id))
     /\ MarkHandle(c, db, [handle EXCEPT !.isClosed = TRUE])
     /\ UNCHANGED <<databaseOpenHelper, databases, mapVars, poolVars>>
  \/ /\ "closeAgain" \in Usage
     /\ ~Locked(c) /\ ~handle.isOpen /\ handle.isClosed
     /\ SetHelper(c, None)
     /\ UNCHANGED <<handles, op, databases, mapVars, poolVars>>

(* Whatever the plugin answered. *)
Closed(c) ==
  /\ Answered(c, "close", "close")
  /\ MarkHandle(c, op[c].db, [handles[c][op[c].db] EXCEPT !.isOpen = FALSE])
  /\ SetHelper(c, None) /\ Unlock(c)
  /\ UNCHANGED <<databases, mapVars, poolVars>>

DeleteDatabase(c) ==
  /\ "delete" \in Usage
  /\ databaseOpenHelper[c] = None \/ "deleteOpened" \in Usage
  /\ SetHelper(c, None)
  /\ Lock(c, Call("delete", "delete", None, None))
  /\ UNCHANGED <<handles, databases, mapVars, poolVars>>

Deleted(c) ==
  /\ Answered(c, "delete", "delete")
  /\ Unlock(c)
  /\ UNCHANGED <<dartVars, databases, mapVars, poolVars>>

-----------------------------------------------------------------------------
(* SqflitePlugin, on its task queue, which handles one call at a time.     *)
Handles(c, method) ==
  /\ At(c, method, "sent")
  /\ \A other \in Clients : Locked(other) => op[other].at # "posting"

Path(c) == PathOf[c]
IsOpen(id) == databases[id].connection = "open"
OpenedInstance(p) ==
  LET id == singleInstancesByPath[p] IN
  IF id # None /\ id \in databaseMap /\ IsOpen(id) THEN id ELSE None

Posted(c, id) == Append(tasks, [client |-> c, method |-> op[c].method, id |-> id])

NewDatabase(path) == [path |-> path, connection |-> "new"]

(* Fault injected: the map of single instances is not consulted. *)
OnOpenDatabaseCallAlwaysNew(c) ==
  /\ Handles(c, "open")
  /\ databases' = Append(databases, NewDatabase(Path(c)))
  /\ databaseWorkerPool' = TRUE
  /\ tasks' = Posted(c, Len(databases) + 1)
  /\ op' = [op EXCEPT ![c].at = "posted"]
  /\ UNCHANGED <<dartVars, mapVars>>

OnOpenDatabaseCall(c) ==
  /\ Handles(c, "open")
  /\ \/ /\ OpenedInstance(Path(c)) # None
        /\ Answer(c, OpenedInstance(Path(c)))
        /\ UNCHANGED <<databases, poolVars>>
     \/ /\ OpenedInstance(Path(c)) = None
        /\ databases' = Append(databases, NewDatabase(Path(c)))
        /\ databaseWorkerPool' = TRUE
        /\ tasks' = Posted(c, Len(databases) + 1)
        /\ op' = [op EXCEPT ![c].at = "posted"]
  /\ UNCHANGED <<dartVars, mapVars>>

(* Fault injected: the path keeps its entry. *)
RemoveFromIdMap(c, id) ==
  /\ databaseMap' = databaseMap \ {id}
  /\ UNCHANGED singleInstancesByPath

RemoveFromMaps(c, id) ==
  /\ databaseMap' = databaseMap \ {id}
  /\ singleInstancesByPath' = [singleInstancesByPath EXCEPT ![Path(c)] = None]

OnCloseDatabaseCall(c) ==
  /\ Handles(c, "close")
  /\ \/ /\ op[c].id \notin databaseMap
        /\ Answer(c, None)
        /\ UNCHANGED mapVars
     \/ /\ op[c].id \in databaseMap
        /\ RemoveFromMaps(c, op[c].id)
        /\ op' = [op EXCEPT ![c].at = "posting"]
  /\ UNCHANGED <<dartVars, databases, poolVars>>

(* Fault injected: the instance found is removed but not remembered. *)
OnDeleteDatabaseCallForgets(c) ==
  /\ Handles(c, "delete")
  /\ \/ OpenedInstance(Path(c)) # None /\ RemoveFromMaps(c, OpenedInstance(Path(c)))
     \/ OpenedInstance(Path(c)) = None /\ UNCHANGED mapVars
  /\ op' = [op EXCEPT ![c].at = "posting"]
  /\ UNCHANGED <<dartVars, databases, poolVars>>

OnDeleteDatabaseCall(c) ==
  /\ Handles(c, "delete")
  /\ \/ OpenedInstance(Path(c)) # None /\ RemoveFromMaps(c, OpenedInstance(Path(c)))
     \/ OpenedInstance(Path(c)) = None /\ UNCHANGED mapVars
  /\ op' = [op EXCEPT ![c].at = "posting", ![c].id = OpenedInstance(Path(c))]
  /\ UNCHANGED <<dartVars, databases, poolVars>>

(* closeDatabase; with no database left in the map the pool is quit, and   *)
(* the looper of its thread drops what is still posted.                    *)
CloseNative(id, left) ==
  /\ databases' = [databases EXCEPT ![id].connection = "closed"]
  /\ IF databaseMap = {} THEN databaseWorkerPool' = FALSE /\ tasks' = <<>>
                         ELSE UNCHANGED databaseWorkerPool /\ tasks' = left

DeleteNative(id, left) ==
  \/ id # None /\ CloseNative(id, left)
  \/ id = None /\ tasks' = left /\ UNCHANGED <<databases, databaseWorkerPool>>

(* Fault injected: without a pool there is nobody to delete. *)
PostWithoutPool(c) ==
  /\ Locked(c) /\ op[c].at = "posting"
  /\ databaseWorkerPool
  /\ tasks' = Posted(c, op[c].id)
  /\ op' = [op EXCEPT ![c].at = "posted"]
  /\ UNCHANGED <<dartVars, databases, mapVars, databaseWorkerPool>>

(* The second half of close and delete.  Without a pool the delete runs    *)
(* here; the close fails with a NullPointerException, answered as an error.*)
Post(c) ==
  /\ Locked(c) /\ op[c].at = "posting"
  /\ \/ /\ databaseWorkerPool
        /\ tasks' = Posted(c, op[c].id)
        /\ op' = [op EXCEPT ![c].at = "posted"]
        /\ UNCHANGED <<databases, databaseWorkerPool>>
     \/ /\ ~databaseWorkerPool /\ op[c].method = "delete"
        /\ DeleteNative(op[c].id, tasks)
        /\ Answer(c, None)
     \/ /\ ~databaseWorkerPool /\ op[c].method = "close"
        /\ Answer(c, None)
        /\ UNCHANGED <<databases, poolVars>>
  /\ UNCHANGED <<dartVars, mapVars>>

-----------------------------------------------------------------------------
(* The pool's thread. *)
NextTask(task) == tasks # <<>> /\ task = Head(tasks)

RunOpen(task) ==
  /\ NextTask(task) /\ task.method = "open"
  /\ \/ /\ databases' = [databases EXCEPT ![task.id].connection = "open"]
        /\ databaseMap' = databaseMap \cup {task.id}
        /\ singleInstancesByPath' =
             [singleInstancesByPath EXCEPT ![Path(task.client)] = task.id]
        /\ Answer(task.client, task.id)
     \/ /\ "openFails" \in Usage
        /\ Answer(task.client, None)
        /\ UNCHANGED <<databases, mapVars>>
  /\ tasks' = Tail(tasks)
  /\ UNCHANGED <<dartVars, databaseWorkerPool>>

RunClose(task) ==
  /\ NextTask(task) /\ task.method = "close"
  /\ CloseNative(task.id, Tail(tasks))
  /\ Answer(task.client, None)
  /\ UNCHANGED <<dartVars, mapVars>>

RunDelete(task) ==
  /\ NextTask(task) /\ task.method = "delete"
  /\ DeleteNative(task.id, Tail(tasks))
  /\ Answer(task.client, None)
  /\ UNCHANGED <<dartVars, mapVars>>

-----------------------------------------------------------------------------
Request(c) ==
  \/ OpenDatabase(c) \/ DeleteDatabase(c)
  \/ \E db \in DOMAIN handles[c] : CloseDatabase(c, db)

Continue(c) ==
  \/ Opened(c) \/ OpenFailed(c) \/ AbandonOpen(c) \/ Abandoned(c)
  \/ Downgrade(c) \/ DowngradeDelete(c) \/ DowngradeReopen(c)
  \/ Closed(c) \/ Deleted(c)

Plugin(c) ==
  \/ OnOpenDatabaseCall(c) \/ OnCloseDatabaseCall(c) \/ OnDeleteDatabaseCall(c)
  \/ Post(c)

Worker == LET task == Head(tasks) IN
          RunOpen(task) \/ RunClose(task) \/ RunDelete(task)

Next == Worker \/ \E c \in Clients : Request(c) \/ Continue(c) \/ Plugin(c)

Spec == Init /\ [][Next]_vars

(* Event loops, task queue and worker run; requests are not forced.        *)
Fairness == /\ WF_vars(Worker)
            /\ \A c \in Clients : WF_vars(Continue(c)) /\ WF_vars(Plugin(c))

FairSpec == Spec /\ Fairness
-----------------------------------------------------------------------------
Ids == DOMAIN databases

(* Types of the variables; an entry of the map of single instances is that *)
(* of a database in the map of databases.                                  *)
TypeOK ==
  /\ databaseOpenHelper \in [Clients -> Nat]
  /\ \A c \in Clients : databaseOpenHelper[c] \in {None} \cup DOMAIN handles[c]
  /\ handles \in [Clients -> Seq([isOpen : BOOLEAN, isClosed : BOOLEAN,
                                  id : {None} \cup Ids])]
  /\ \A c \in Clients :
       Locked(c) => /\ op[c].goal \in Goals
                    /\ op[c].method \in Methods
                    /\ op[c].at \in Stages
                    /\ op[c].db \in {None} \cup DOMAIN handles[c]
                    /\ op[c].id \in {None} \cup Ids
  /\ databases \in Seq([path : Paths, connection : {"new", "open", "closed"}])
  /\ databaseMap \subseteq Ids
  /\ singleInstancesByPath \in [Paths -> {None} \cup databaseMap]
  /\ databaseWorkerPool \in BOOLEAN
  /\ tasks \in Seq([client : Clients, method : Methods, id : {None} \cup Ids])

IsLive(handle) == handle.isOpen /\ ~handle.isClosed

(* The Database objects of a path that an isolate has open are one object. *)
SingleInstance ==
  \A c \in Clients : \A i, j \in DOMAIN handles[c] :
    IsLive(handles[c][i]) /\ IsLive(handles[c][j]) => i = j

(* A handle that an application has open works: its database is known to   *)
(* the plugin, under its path, and its connection is open.                 *)
LiveHandleWorks ==
  \A c \in Clients : \A i \in DOMAIN handles[c] :
    IsLive(handles[c][i]) =>
      /\ handles[c][i].id \in databaseMap
      /\ handles[c][i].id = singleInstancesByPath[Path(c)]
      /\ IsOpen(handles[c][i].id)

(* A connection is not open on the native side without a way to close it:  *)
(* the plugin knows the database, or is about to close it.                 *)
ToBeClosed(id) ==
  \/ \E c \in Clients : Locked(c) /\ op[c].at = "posting" /\ op[c].id = id
  \/ \E i \in DOMAIN tasks : tasks[i].id = id /\ tasks[i].method # "open"
NoConnectionLost ==
  \A id \in Ids : IsOpen(id) => id \in databaseMap \/ ToBeClosed(id)

(* Two connections are never open at the same time for one path.           *)
OneConnection ==
  \A i, j \in Ids :
    IsOpen(i) /\ IsOpen(j) /\ databases[i].path = databases[j].path => i = j

(* Every close completes, whatever other databases do ("close should never *)
(* fail").                                                                 *)
ClosesComplete ==
  \A c \in Clients : (Locked(c) /\ op[c].goal = "close") ~> ~Locked(c)

(* Every open, close and delete completes. *)
OperationsComplete == \A c \in Clients : Locked(c) ~> ~Locked(c)
=============================================================================
