------------------------------ MODULE DarwinPlugin ------------------------------
(***************************************************************************)
(* Opening, closing and deleting the database of one path on iOS/macOS     *)
(* (SqflitePlugin.m with SqfliteDarwinDatabaseQueue.m), as one Dart        *)
(* isolate does it, which may be hot restarted.                            *)
(*                                                                         *)
(* The plugin handles the method calls one at a time.  What touches the    *)
(* connection is a block sent to a concurrent global queue: blocks run in  *)
(* any order, one at a time on the serial queue of their database.  Such a *)
(* queue opens its connection again, if it has been closed, for whatever   *)
(* block comes; the connection is closed with the last reference to it.    *)
(***************************************************************************)
EXTENDS Integers, FiniteSets

CONSTANTS
  MaxOpens,     \* bound on the native databases that are created
  MaxCalls,     \* bound on the SQL calls the isolate sends
  MaxRestarts,
  Usage         \* what applications and developers do

(* "newInstance": open with singleInstance false.                          *)
(* "readOnly": open read-only.                                             *)
(* "restartInDelete": a hot restart while a delete is unanswered.          *)
ASSUME PluginAssumption ==
  /\ MaxOpens \in Nat /\ MaxCalls \in Nat /\ MaxRestarts \in Nat
  /\ Usage \subseteq {"newInstance", "readOnly", "restartInDelete"}

VARIABLES
  \* SqflitePlugin.m
  databaseMap,                \* ids
  singleInstanceDatabaseMap,  \* the id for the path, or nil
  lastDatabaseId,
  databases,                  \* options of each id
  blocks,                     \* dispatched, not yet run
  connection,                 \* the file a queue has open, or none
  \* the file system
  file,                       \* the file at the path, or none
  files,                      \* files created so far, to tell them apart
  \* the isolate
  held,                       \* ids of its open Database objects
  locked,                     \* a close or a delete awaits its answer
  epoch, calls                \* hot restarts and SQL calls so far

mapVars == <<databaseMap, singleInstanceDatabaseMap, lastDatabaseId, databases>>
fileVars == <<connection, file, files>>
dartVars == <<held, locked, epoch, calls>>
vars == <<mapVars, blocks, fileVars, dartVars>>

-----------------------------------------------------------------------------
None == 0
Ids == 1..MaxOpens

Options == [singleInstance : BOOLEAN, readOnly : BOOLEAN]

Init ==
  /\ databaseMap = {} /\ singleInstanceDatabaseMap = None
  /\ lastDatabaseId = 0
  /\ databases = [id \in Ids |-> [singleInstance |-> FALSE, readOnly |-> FALSE]]
  /\ blocks = {}
  /\ connection = [id \in Ids |-> None]
  /\ file = None /\ files = 0
  /\ held = {} /\ locked = FALSE /\ epoch = 0 /\ calls = 0

(* dispatch_async to the global queue. *)
Dispatch(kind, id) ==
  blocks' = blocks \cup {[kind |-> kind, id |-> id, epoch |-> epoch, number |-> calls]}

-----------------------------------------------------------------------------
(* The queue of a database. *)

(* What a connection opened now is to: the file at the path, which is      *)
(* created unless readOnly.                                                *)
FileOpened(readOnly) ==
  IF file # None THEN file ELSE IF readOnly THEN None ELSE files + 1

(* openWithFlags *)
Open(readOnly) ==
  /\ FileOpened(readOnly) # None
  /\ file' = FileOpened(readOnly)
  /\ files' = IF file' > files THEN file' ELSE files

(* A block has run.  Queues nobody refers to any more are deallocated, and *)
(* their connections closed.                                               *)
Ran(b, conn) ==
  /\ blocks' = blocks \ {b}
  /\ connection' = [id \in Ids |->
       IF id \in databaseMap \/ \E other \in blocks' : other.id = id
         THEN conn[id] ELSE None]

-----------------------------------------------------------------------------
(* The isolate calls, and the plugin handles the call. *)

(* handleOpenDatabaseCall: the instance of the path, after a hot restart.  *)
(* Before it, the helper of the path answers in Dart.                      *)
OpenRecovered ==
  /\ ~locked
  /\ singleInstanceDatabaseMap \notin held \cup {None}
  /\ held' = held \cup {singleInstanceDatabaseMap}
  /\ UNCHANGED <<mapVars, blocks, fileVars, locked, epoch, calls>>

(* handleOpenDatabaseCall: a new database, whose first block turns on      *)
(* extended result codes and is waited for by nobody.                      *)
OpenNew(options) ==
  /\ ~locked
  /\ options.singleInstance => singleInstanceDatabaseMap = None
  /\ ~options.singleInstance => "newInstance" \in Usage
  /\ options.readOnly => "readOnly" \in Usage
  /\ lastDatabaseId < MaxOpens
  /\ lastDatabaseId' = lastDatabaseId + 1
  /\ Open(options.readOnly)
  /\ connection' = [connection EXCEPT ![lastDatabaseId'] = file']
  /\ Dispatch("extendedResultCodes", lastDatabaseId')
  /\ databases' = [databases EXCEPT ![lastDatabaseId'] = options]
  /\ databaseMap' = databaseMap \cup {lastDatabaseId'}
  /\ singleInstanceDatabaseMap' = IF options.singleInstance
                                    THEN lastDatabaseId'
                                    ELSE singleInstanceDatabaseMap
  /\ held' = held \cup {lastDatabaseId'}
  /\ UNCHANGED <<locked, epoch, calls>>

(* handleExecuteCall, handleQueryCall, ... *)
SqlCall(id) ==
  /\ id \in held /\ calls < MaxCalls
  /\ calls' = calls + 1
  /\ id \in databaseMap       \* getDatabaseOrError
  /\ Dispatch("sql", id)
  /\ UNCHANGED <<mapVars, fileVars, held, locked, epoch>>

(* Fault injected: the database stays among the single instances. *)
RemoveFromIdMap(id) ==
  /\ databaseMap' = databaseMap \ {id}
  /\ UNCHANGED <<singleInstanceDatabaseMap, lastDatabaseId, databases>>

(* Fault injected: closing any database removes the single instance. *)
RemoveAnyInstance(id) ==
  /\ databaseMap' = databaseMap \ {id}
  /\ singleInstanceDatabaseMap' = None
  /\ UNCHANGED <<lastDatabaseId, databases>>

(* closeDatabase, under mapLock. *)
RemoveFromMaps(id) ==
  /\ databaseMap' = databaseMap \ {id}
  /\ singleInstanceDatabaseMap' = IF databases[id].singleInstance
                                    THEN None ELSE singleInstanceDatabaseMap
  /\ UNCHANGED <<lastDatabaseId, databases>>

(* handleCloseDatabaseCall; calls that were not awaited may be in flight.  *)
CloseDatabase(id) ==
  /\ ~locked /\ locked' = TRUE
  /\ id \in held /\ held' = held \ {id}
  /\ RemoveFromMaps(id)
  /\ Dispatch("close", id)
  /\ UNCHANGED <<fileVars, epoch, calls>>

(* handleDeleteDatabaseCall: the single instance is closed first; without  *)
(* one the file is deleted before the handler returns.                     *)
DeleteDatabase ==
  /\ ~locked
  /\ \/ /\ singleInstanceDatabaseMap # None
        /\ locked' = TRUE
        /\ held' = held \ {singleInstanceDatabaseMap}
        /\ RemoveFromMaps(singleInstanceDatabaseMap)
        /\ Dispatch("delete", singleInstanceDatabaseMap)
        /\ UNCHANGED fileVars
     \/ /\ singleInstanceDatabaseMap = None
        /\ file' = None
        /\ UNCHANGED <<mapVars, blocks, connection, files, held, locked>>
  /\ UNCHANGED <<epoch, calls>>

(* The Dart heap is gone, with its handles and locks. *)
HotRestart ==
  /\ epoch < MaxRestarts
  /\ \/ "restartInDelete" \in Usage
     \/ \A b \in blocks : b.kind # "delete"
  /\ epoch' = epoch + 1
  /\ held' = {} /\ locked' = FALSE
  /\ UNCHANGED <<mapVars, blocks, fileVars, calls>>

-----------------------------------------------------------------------------
(* The blocks. *)

(* inDatabase: reopen if need be, and run a handler; on nil, if the file   *)
(* cannot be opened again.                                                 *)
InDatabase(b) ==
  /\ b.kind \in {"extendedResultCodes", "sql"}
  /\ UNCHANGED <<mapVars, dartVars>>
  /\ \/ /\ connection[b.id] # None
        /\ UNCHANGED <<file, files>>
        /\ Ran(b, connection)
     \/ /\ connection[b.id] = None
        /\ Open(databases[b.id].readOnly)
        /\ Ran(b, [connection EXCEPT ![b.id] = file'])
     \/ /\ connection[b.id] = None
        /\ FileOpened(databases[b.id].readOnly) = None
        /\ UNCHANGED <<file, files>>
        /\ Ran(b, connection)

Answer(b) == locked' = (locked /\ b.epoch # epoch)

(* Fault injected: the block looks its database up again. *)
RunCloseIfFound(b) ==
  /\ b.kind \in {"close", "delete"}
  /\ Ran(b, [connection EXCEPT ![b.id] = None])
  /\ file' = IF b.kind = "delete" THEN None ELSE file
  /\ locked' = (locked /\ (b.epoch # epoch \/ b.id \notin databaseMap))
  /\ UNCHANGED <<mapVars, files, held, epoch, calls>>

(* closeDatabase: close the queue, then the callback, which deletes the    *)
(* file if need be, and answers.  That a late block runs between these     *)
(* steps is left out: it opens the connection again, for as long as the    *)
(* queue is referred to, as one that runs before or after them does.       *)
RunClose(b) ==
  /\ b.kind \in {"close", "delete"}
  /\ Ran(b, [connection EXCEPT ![b.id] = None])
  /\ file' = IF b.kind = "delete" THEN None ELSE file
  /\ Answer(b)
  /\ UNCHANGED <<mapVars, files, held, epoch, calls>>

-----------------------------------------------------------------------------
Dart ==
  \/ OpenRecovered \/ DeleteDatabase \/ HotRestart
  \/ \E options \in Options : OpenNew(options)
  \/ \E id \in Ids : SqlCall(id) \/ CloseDatabase(id)

Block(b) == InDatabase(b) \/ RunClose(b)

Next == Dart \/ \E b \in blocks : Block(b)

Spec == Init /\ [][Next]_vars

(* The global queue runs every block. *)
Fairness ==
  \A id \in Ids : WF_vars(\E b \in blocks : b.id = id /\ RunClose(b))

FairSpec == Spec /\ Fairness
-----------------------------------------------------------------------------
(* Types of the variables; a single instance is in both maps.             *)
TypeOK ==
  /\ databaseMap \subseteq 1..lastDatabaseId
  /\ singleInstanceDatabaseMap \in databaseMap \cup {None}
  /\ lastDatabaseId \in 0..MaxOpens
  /\ databases \in [Ids -> Options]
  /\ blocks \subseteq [kind : {"extendedResultCodes", "sql", "close", "delete"},
                       id : 1..lastDatabaseId, epoch : 0..epoch, number : 0..calls]
  /\ connection \in [Ids -> 0..files]
  /\ file \in 0..files /\ files \in Nat
  /\ held \subseteq databaseMap
  /\ locked \in BOOLEAN
  /\ epoch \in Nat /\ calls \in Nat

(* The single-instance database that is open natively is the one a         *)
(* reopening isolate is given, and its connection is to the file at the    *)
(* path, not to one that has been deleted or to none: whatever closes,     *)
(* deletes, stale calls and restarts came before.                          *)
SingleInstanceHasItsFile ==
  \A id \in databaseMap : databases[id].singleInstance =>
    /\ id = singleInstanceDatabaseMap
    /\ connection[id] = file /\ file # None

(* A close or a delete is answered.                                        *)
OperationsAnswered == locked ~> ~locked
=============================================================================
