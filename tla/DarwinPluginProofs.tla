-------------------------- MODULE DarwinPluginProofs --------------------------
(* Theorems about DarwinPlugin, for any number of databases, calls and hot *)
(* restarts.                                                               *)
EXTENDS DarwinPlugin, TLAPS

Closing == {"close", "delete"}

(* What makes TypeOK inductive: the map of single instances has exactly    *)
(* the mapped database that was opened as one.                             *)
SingleInInvariant ==
  singleInstanceDatabaseMap # None =>
    databases[singleInstanceDatabaseMap].singleInstance
OnlyInstance ==
  \A id \in databaseMap :
    databases[id].singleInstance => id = singleInstanceDatabaseMap
MapInvariant == SingleInInvariant /\ OnlyInstance

(* What makes SingleInstanceHasItsFile inductive.  An unanswered close or  *)
(* delete of the isolate holds its lock, and is the only one; a database   *)
(* that is being closed is in no map; and while a file is waiting to be    *)
(* deleted the path has no single instance.                                *)
OneAwaited ==
  /\ \A b \in blocks : b.kind \in Closing /\ b.epoch = epoch => locked
  /\ \A b, d \in blocks :
       /\ b.kind \in Closing /\ b.epoch = epoch
       /\ d.kind \in Closing /\ d.epoch = epoch
       => b = d
ClosedNotMapped ==
  \A b \in blocks : b.kind \in Closing => b.id \notin databaseMap
DeleteAwaited ==
  \A b \in blocks : b.kind = "delete" =>
    b.epoch = epoch /\ singleInstanceDatabaseMap = None

FileInvariant ==
  /\ SingleInInvariant /\ OneAwaited /\ ClosedNotMapped /\ DeleteAwaited
  /\ SingleInstanceHasItsFile

(* A database that has its file is the only single instance. *)
LEMMA FileMap == FileInvariant => MapInvariant
BY DEF FileInvariant, MapInvariant, OnlyInstance, SingleInstanceHasItsFile

(* The initial state. *)
LEMMA InitInvariant == Init => TypeOK /\ FileInvariant
<1>. SUFFICES ASSUME Init PROVE TypeOK /\ FileInvariant
  OBVIOUS
<1>1. TypeOK
  <2>1. /\ 0 \in 0..MaxOpens /\ files \in Nat /\ file \in 0..files
        /\ connection \in [Ids -> 0..files] /\ lastDatabaseId \in 0..MaxOpens
    BY PluginAssumption DEF Init, None
  <2>2. databases \in [Ids -> Options] /\ locked \in BOOLEAN
    BY DEF Init, Options
  <2>3. /\ databaseMap \subseteq 1..lastDatabaseId /\ held \subseteq databaseMap
        /\ singleInstanceDatabaseMap \in databaseMap \cup {None}
        /\ blocks \subseteq [kind : {"extendedResultCodes", "sql", "close", "delete"},
                             id : 1..lastDatabaseId, epoch : 0..epoch, number : 0..calls]
        /\ epoch \in Nat /\ calls \in Nat
    BY DEF Init
  <2>. QED
    BY <2>1, <2>2, <2>3 DEF TypeOK
<1>2. FileInvariant
  BY DEF Init, FileInvariant, SingleInInvariant, OneAwaited, ClosedNotMapped,
     DeleteAwaited, SingleInstanceHasItsFile
<1>. QED
  BY <1>1, <1>2

(* Opening a file keeps the files' types. *)
LEMMA OpenTyped ==
  ASSUME TypeOK, NEW readOnly \in BOOLEAN, Open(readOnly)
  PROVE  /\ file' \in 0..files' /\ files' \in Nat /\ files <= files'
         /\ file' # None
         /\ file # None => file' = file
<1>1. file \in 0..files /\ files \in Nat /\ None = 0
  BY DEF TypeOK, None
<1>. QED
  BY <1>1 DEF Open, FileOpened

(* So does the end of a block. *)
LEMMA RanTyped ==
  ASSUME TypeOK, NEW b \in blocks, files' \in Nat, files <= files',
         NEW conn \in [Ids -> 0..files'], Ran(b, conn)
  PROVE  /\ blocks' \subseteq blocks
         /\ connection' \in [Ids -> 0..files']
<1>1. None \in 0..files'
  BY DEF None
<1>. QED
  BY <1>1 DEF Ran

(* What a dispatch adds. *)
LEMMA Dispatched ==
  ASSUME NEW kind, NEW id, Dispatch(kind, id)
  PROVE  \E e : /\ blocks' = blocks \cup {e}
               /\ e.kind = kind /\ e.id = id /\ e.epoch = epoch
<1>. DEFINE e == [kind |-> kind, id |-> id, epoch |-> epoch, number |-> calls]
<1>1. e.kind = kind /\ e.id = id /\ e.epoch = epoch
  OBVIOUS
<1>2. blocks' = blocks \cup {e}
  BY DEF Dispatch
<1>. HIDE DEF e
<1>. QED
  BY <1>1, <1>2

(* A dispatched block has its type. *)
LEMMA DispatchTyped ==
  ASSUME TypeOK, NEW kind \in {"extendedResultCodes", "sql", "close", "delete"},
         NEW id \in 1..lastDatabaseId', Dispatch(kind, id),
         epoch' = epoch, calls' \in Nat, calls <= calls',
         lastDatabaseId' \in Nat, lastDatabaseId <= lastDatabaseId'
  PROVE  blocks' \subseteq
           [kind : {"extendedResultCodes", "sql", "close", "delete"},
            id : 1..lastDatabaseId', epoch : 0..epoch', number : 0..calls']
<1>1. /\ epoch \in 0..epoch' /\ calls \in 0..calls'
      /\ lastDatabaseId \in Nat /\ calls \in Nat
  BY DEF TypeOK
<1>2. /\ 1..lastDatabaseId \subseteq 1..lastDatabaseId'
      /\ 0..calls \subseteq 0..calls' /\ 0..epoch \subseteq 0..epoch'
  BY <1>1
<1>3. blocks \subseteq
           [kind : {"extendedResultCodes", "sql", "close", "delete"},
            id : 1..lastDatabaseId', epoch : 0..epoch', number : 0..calls']
  BY <1>2 DEF TypeOK
<1>. QED
  BY <1>1, <1>3 DEF Dispatch

(* Taking a database out of the maps keeps their types. *)
LEMMA RemoveTyped ==
  ASSUME TypeOK, MapInvariant, NEW id \in databaseMap, RemoveFromMaps(id)
  PROVE  /\ databaseMap' = databaseMap \ {id}
         /\ singleInstanceDatabaseMap' \in databaseMap' \cup {None}
         /\ lastDatabaseId' = lastDatabaseId /\ databases' = databases
         /\ singleInstanceDatabaseMap' \in {singleInstanceDatabaseMap, None}
         /\ \A other \in databaseMap' : databases[other].singleInstance =>
              other = singleInstanceDatabaseMap'
<1>1. CASE databases[id].singleInstance
  BY <1>1 DEF RemoveFromMaps, MapInvariant, OnlyInstance
<1>2. CASE ~databases[id].singleInstance
  <2>1. singleInstanceDatabaseMap # id \/ id = None
    BY <1>2 DEF MapInvariant, SingleInInvariant
  <2>2. id # None
    BY DEF TypeOK, None
  <2>. QED
    BY <1>2, <2>1, <2>2 DEF RemoveFromMaps, TypeOK, MapInvariant, OnlyInstance
<1>. QED
  BY <1>1, <1>2
-----------------------------------------------------------------------------
(* Every step keeps the types. *)
LEMMA TypeStep ==
  ASSUME TypeOK, MapInvariant, [Next]_vars
  PROVE  TypeOK'
<1>0. /\ lastDatabaseId \in Nat /\ MaxOpens \in Nat /\ files \in Nat
      /\ epoch \in Nat /\ calls \in Nat /\ None = 0
  BY PluginAssumption DEF TypeOK, None
<1>1. CASE OpenRecovered
  BY <1>1 DEF OpenRecovered, TypeOK, mapVars, fileVars
<1>2. ASSUME NEW options \in Options, OpenNew(options) PROVE TypeOK'
  <2>1. /\ lastDatabaseId' = lastDatabaseId + 1 /\ lastDatabaseId' \in Ids
        /\ lastDatabaseId' \in 0..MaxOpens /\ lastDatabaseId <= lastDatabaseId'
        /\ lastDatabaseId' \in 1..lastDatabaseId'
        /\ 1..lastDatabaseId \subseteq 1..lastDatabaseId'
    BY <1>0, <1>2 DEF OpenNew, Ids
  <2>2. /\ file' \in 0..files' /\ files' \in Nat /\ files <= files'
    BY <1>2, OpenTyped DEF OpenNew, Options
  <2>3. connection' \in [Ids -> 0..files']
    <3>1. connection \in [Ids -> 0..files']
      BY <1>0, <2>2 DEF TypeOK
    <3>. QED
      BY <1>2, <2>2, <3>1 DEF OpenNew
  <2>4. blocks' \subseteq
           [kind : {"extendedResultCodes", "sql", "close", "delete"},
            id : 1..lastDatabaseId', epoch : 0..epoch', number : 0..calls']
    BY <1>0, <1>2, <2>1, DispatchTyped DEF OpenNew
  <2>5. /\ databaseMap' \subseteq 1..lastDatabaseId'
        /\ singleInstanceDatabaseMap' \in databaseMap' \cup {None}
        /\ held' \subseteq databaseMap'
    BY <1>2, <2>1 DEF OpenNew, TypeOK
  <2>6. databases' \in [Ids -> Options]
    BY <1>2 DEF OpenNew, TypeOK
  <2>. QED
    BY <1>2, <2>1, <2>2, <2>3, <2>4, <2>5, <2>6 DEF OpenNew, TypeOK
<1>3. ASSUME NEW id \in Ids, SqlCall(id) PROVE TypeOK'
  <2>1. id \in 1..lastDatabaseId' /\ calls' = calls + 1
    BY <1>3 DEF SqlCall, TypeOK, mapVars
  <2>2. blocks' \subseteq
           [kind : {"extendedResultCodes", "sql", "close", "delete"},
            id : 1..lastDatabaseId', epoch : 0..epoch', number : 0..calls']
    BY <1>0, <1>3, <2>1, DispatchTyped DEF SqlCall, mapVars
  <2>. QED
    BY <1>0, <1>3, <2>1, <2>2 DEF SqlCall, TypeOK, mapVars, fileVars
<1>4. ASSUME NEW id \in databaseMap, NEW kind \in Closing, RemoveFromMaps(id),
             Dispatch(kind, id), locked' = TRUE, held' = held \ {id},
             UNCHANGED <<fileVars, epoch, calls>>
      PROVE  TypeOK'
  <2>1. /\ databaseMap' = databaseMap \ {id}
        /\ singleInstanceDatabaseMap' \in databaseMap' \cup {None}
        /\ lastDatabaseId' = lastDatabaseId /\ databases' = databases
    BY <1>4, RemoveTyped
  <2>2. blocks' \subseteq
           [kind : {"extendedResultCodes", "sql", "close", "delete"},
            id : 1..lastDatabaseId', epoch : 0..epoch', number : 0..calls']
    <3>1. id \in 1..lastDatabaseId'
      BY <2>1 DEF TypeOK
    <3>. QED
      BY <1>0, <1>4, <2>1, <3>1, DispatchTyped DEF Closing
  <2>. QED
    BY <1>4, <2>1, <2>2 DEF TypeOK, fileVars
<1>5. ASSUME NEW id \in Ids, CloseDatabase(id) PROVE TypeOK'
  BY <1>4, <1>5 DEF CloseDatabase, Closing, TypeOK
<1>6. CASE DeleteDatabase
  <2>1. CASE singleInstanceDatabaseMap # None
    BY <1>4, <1>6, <2>1 DEF DeleteDatabase, Closing, TypeOK
  <2>2. CASE singleInstanceDatabaseMap = None
    <3>1. /\ UNCHANGED <<databaseMap, singleInstanceDatabaseMap, lastDatabaseId,
                        databases, blocks, connection, files, held, locked,
                        epoch, calls>>
          /\ file' = None
      BY <1>6, <2>2 DEF DeleteDatabase, mapVars
    <3>2. file' \in 0..files'
      BY <1>0, <3>1
    <3>. QED
      BY <3>1, <3>2 DEF TypeOK
  <2>. QED
    BY <2>1, <2>2
<1>7. CASE HotRestart
  <2>1. 0..epoch \subseteq 0..epoch' /\ epoch' \in Nat
    BY <1>0, <1>7 DEF HotRestart
  <2>2. blocks' \subseteq
           [kind : {"extendedResultCodes", "sql", "close", "delete"},
            id : 1..lastDatabaseId, epoch : 0..epoch', number : 0..calls]
    BY <1>7, <2>1 DEF HotRestart, TypeOK
  <2>3. held' \subseteq databaseMap' /\ locked' \in BOOLEAN
    BY <1>7 DEF HotRestart
  <2>4. UNCHANGED <<databaseMap, singleInstanceDatabaseMap, lastDatabaseId,
                    databases, connection, file, files, calls>>
    BY <1>7 DEF HotRestart, mapVars, fileVars
  <2>5. blocks' \subseteq
           [kind : {"extendedResultCodes", "sql", "close", "delete"},
            id : 1..lastDatabaseId', epoch : 0..epoch', number : 0..calls']
    BY <2>2, <2>4
  <2>6. /\ databaseMap' \subseteq 1..lastDatabaseId'
        /\ singleInstanceDatabaseMap' \in databaseMap' \cup {None}
        /\ lastDatabaseId' \in 0..MaxOpens /\ databases' \in [Ids -> Options]
    BY <2>4 DEF TypeOK
  <2>7. /\ connection' \in [Ids -> 0..files']
        /\ file' \in 0..files' /\ files' \in Nat /\ calls' \in Nat
    BY <2>4 DEF TypeOK
  <2>. QED
    BY <2>1, <2>3, <2>5, <2>6, <2>7 DEF TypeOK
<1>8. ASSUME NEW b \in blocks, InDatabase(b) PROVE TypeOK'
  <2>0. b.id \in Ids /\ databases[b.id].readOnly \in BOOLEAN
    BY <1>0 DEF TypeOK, Ids, Options
  <2>1. /\ blocks' \subseteq blocks /\ connection' \in [Ids -> 0..files']
        /\ file' \in 0..files' /\ files' \in Nat
    <3>1. CASE Open(databases[b.id].readOnly) /\ Ran(b, [connection EXCEPT ![b.id] = file'])
      <4>1. file' \in 0..files' /\ files' \in Nat /\ files <= files'
        BY <2>0, <3>1, OpenTyped
      <4>2. [connection EXCEPT ![b.id] = file'] \in [Ids -> 0..files']
        <5>1. connection \in [Ids -> 0..files']
          BY <1>0, <4>1 DEF TypeOK
        <5>. QED
          BY <4>1, <5>1
      <4>. QED
        BY <3>1, <4>1, <4>2, RanTyped
    <3>2. CASE UNCHANGED <<file, files>> /\ Ran(b, connection)
      <4>1. connection \in [Ids -> 0..files'] /\ files' \in Nat /\ files <= files'
        BY <1>0, <3>2 DEF TypeOK
      <4>. QED
        BY <3>2, <4>1, RanTyped DEF TypeOK
    <3>. QED
      BY <1>8, <3>1, <3>2 DEF InDatabase
  <2>. QED
    BY <1>8, <2>1 DEF InDatabase, TypeOK, mapVars, dartVars
<1>9. ASSUME NEW b \in blocks, RunClose(b) PROVE TypeOK'
  <2>1. [connection EXCEPT ![b.id] = None] \in [Ids -> 0..files']
    <3>1. connection \in [Ids -> 0..files'] /\ None \in 0..files'
      BY <1>0, <1>9 DEF RunClose, TypeOK
    <3>. QED
      BY <3>1
  <2>2. files' \in Nat /\ files <= files' /\ file' \in 0..files' /\ locked' \in BOOLEAN
    BY <1>0, <1>9 DEF RunClose, Answer, TypeOK
  <2>3. blocks' \subseteq blocks /\ connection' \in [Ids -> 0..files']
    BY <1>9, <2>1, <2>2, RanTyped DEF RunClose
  <2>. QED
    BY <1>9, <2>2, <2>3 DEF RunClose, TypeOK, mapVars
<1>10. CASE UNCHANGED vars
  BY <1>10 DEF vars, TypeOK, mapVars, fileVars, dartVars
<1>. QED
  BY <1>1, <1>2, <1>3, <1>5, <1>6, <1>7, <1>8, <1>9, <1>10 DEF Next, Dart, Block

(* Every step keeps the map of single instances exact.                     *)
LEMMA MapStep ==
  ASSUME TypeOK, MapInvariant, [Next]_vars
  PROVE  MapInvariant'
<1>0. None = 0 /\ lastDatabaseId \in Nat
  BY DEF None, TypeOK
<1>1. ASSUME UNCHANGED mapVars PROVE MapInvariant'
  BY <1>1 DEF mapVars, MapInvariant, SingleInInvariant, OnlyInstance
<1>2. ASSUME NEW options \in Options, OpenNew(options) PROVE MapInvariant'
  <2>1. /\ lastDatabaseId' = lastDatabaseId + 1 /\ lastDatabaseId' \in Ids
        /\ databaseMap' = databaseMap \cup {lastDatabaseId'}
        /\ databases' = [databases EXCEPT ![lastDatabaseId'] = options]
        /\ options.singleInstance => singleInstanceDatabaseMap = None
        /\ singleInstanceDatabaseMap' = IF options.singleInstance
             THEN lastDatabaseId' ELSE singleInstanceDatabaseMap
    BY <1>0, <1>2, PluginAssumption DEF OpenNew, Ids
  <2>2. \A id \in databaseMap : id # None /\ id # lastDatabaseId' /\ id \in Ids
    BY <1>0, <2>1, PluginAssumption DEF TypeOK, Ids
  <2>3. \A id \in databaseMap : databases'[id] = databases[id]
    BY <2>1, <2>2 DEF TypeOK
  <2>4. databases'[lastDatabaseId'] = options
    BY <2>1 DEF TypeOK
  <2>5. singleInstanceDatabaseMap \in databaseMap \cup {None}
    BY DEF TypeOK
  <2>. QED
    BY <2>1, <2>2, <2>3, <2>4, <2>5 DEF MapInvariant, SingleInInvariant, OnlyInstance
<1>3. ASSUME NEW id \in databaseMap, RemoveFromMaps(id) PROVE MapInvariant'
  BY <1>3, RemoveTyped DEF MapInvariant, SingleInInvariant, OnlyInstance
<1>4. ASSUME NEW id \in Ids, CloseDatabase(id) PROVE MapInvariant'
  BY <1>3, <1>4 DEF CloseDatabase, TypeOK
<1>5. CASE DeleteDatabase
  BY <1>1, <1>3, <1>5 DEF DeleteDatabase, TypeOK
<1>. QED
  BY <1>1, <1>2, <1>4, <1>5 DEF Next, Dart, Block, OpenRecovered, SqlCall,
     HotRestart, InDatabase, RunClose, vars

(* The variables keep their types, and a single instance is in both maps,  *)
(* whatever the isolates and the developers do: restarts in the middle of  *)
(* a delete included.                                                      *)
THEOREM TypeCorrect == Spec => []TypeOK
<1>. DEFINE I == TypeOK /\ MapInvariant
<1>1. Init => I
  BY InitInvariant, FileMap
<1>2. I /\ [Next]_vars => I'
  BY TypeStep, MapStep
<1>3. I => TypeOK
  OBVIOUS
<1>. HIDE DEF I
<1>. QED
  BY <1>1, <1>2, <1>3, PTL DEF Spec
-----------------------------------------------------------------------------
(* A connection of a mapped database is kept at the end of a block.        *)
LEMMA RanKeeps ==
  ASSUME TypeOK, NEW b \in blocks, NEW conn, Ran(b, conn), NEW id \in databaseMap
  PROVE  connection'[id] = conn[id]
<1>1. id \in Ids
  BY PluginAssumption DEF TypeOK, Ids
<1>. QED
  BY <1>1 DEF Ran

(* Blocks that go away, and an epoch that stays, keep what is said of the  *)
(* awaited ones.                                                           *)
LEMMA FewerBlocks ==
  ASSUME FileInvariant, blocks' \subseteq blocks, UNCHANGED <<mapVars, epoch>>
  PROVE  /\ SingleInInvariant' /\ ClosedNotMapped' /\ DeleteAwaited'
         /\ locked' = locked => OneAwaited'
BY DEF FileInvariant, SingleInInvariant, ClosedNotMapped, DeleteAwaited,
   OneAwaited, mapVars

(* Every step keeps the invariant, if no developer restarts in the middle  *)
(* of a delete.                                                            *)
LEMMA FileStep ==
  ASSUME "restartInDelete" \notin Usage, TypeOK, FileInvariant, [Next]_vars
  PROVE  FileInvariant'
<1>0. /\ lastDatabaseId \in Nat /\ files \in Nat /\ epoch \in Nat /\ None = 0
      /\ databaseMap \subseteq 1..lastDatabaseId /\ MaxOpens \in Nat
      /\ databaseMap \subseteq Ids
  BY PluginAssumption DEF TypeOK, None, Ids
<1>1. CASE OpenRecovered
  BY <1>1 DEF OpenRecovered, FileInvariant, SingleInInvariant, OneAwaited,
     ClosedNotMapped, DeleteAwaited, SingleInstanceHasItsFile, mapVars, fileVars
<1>2. ASSUME NEW options \in Options, OpenNew(options) PROVE FileInvariant'
  <2>. DEFINE id == lastDatabaseId'
  <2>1. /\ id = lastDatabaseId + 1 /\ id \in Ids /\ id # None
        /\ id \notin databaseMap /\ ~locked
    BY <1>0, <1>2 DEF OpenNew, Ids
  <2>2. /\ file' # None /\ (file # None => file' = file)
    BY <1>2, OpenTyped DEF OpenNew, Options
  <2>3. /\ databaseMap' = databaseMap \cup {id}
        /\ databases' = [databases EXCEPT ![id] = options]
        /\ connection' = [connection EXCEPT ![id] = file']
        /\ singleInstanceDatabaseMap' = IF options.singleInstance THEN id
                                        ELSE singleInstanceDatabaseMap
        /\ options.singleInstance => singleInstanceDatabaseMap = None
        /\ locked' = locked /\ epoch' = epoch
    BY <1>2 DEF OpenNew
  <2>4. /\ databases'[id] = options /\ connection'[id] = file'
        /\ \A other \in databaseMap : /\ databases'[other] = databases[other]
                                      /\ connection'[other] = connection[other]
    BY <1>0, <2>1, <2>3 DEF TypeOK
  <2>5. PICK e : /\ blocks' = blocks \cup {e}
                 /\ e.kind = "extendedResultCodes"
    BY <1>2, Dispatched DEF OpenNew
  <2>6. SingleInInvariant'
    <3>1. singleInstanceDatabaseMap # None => singleInstanceDatabaseMap \in databaseMap
      BY DEF TypeOK
    <3>. QED
      BY <2>3, <2>4, <3>1 DEF SingleInInvariant, FileInvariant
  <2>7. OneAwaited'
    BY <2>3, <2>5 DEF OneAwaited, FileInvariant, Closing
  <2>8. ClosedNotMapped'
    <3>1. \A b \in blocks : b.id # id
      BY <1>0, <2>1 DEF TypeOK
    <3>. QED
      BY <2>3, <2>5, <3>1 DEF ClosedNotMapped, FileInvariant, Closing
  <2>9. DeleteAwaited'
    <3>1. \A b \in blocks : b.kind # "delete"
      BY <2>1 DEF DeleteAwaited, OneAwaited, FileInvariant, Closing
    <3>. QED
      BY <2>5, <3>1 DEF DeleteAwaited
  <2>10. SingleInstanceHasItsFile'
    <3>1. ASSUME NEW other \in databaseMap, databases[other].singleInstance
          PROVE  /\ other = singleInstanceDatabaseMap' /\ connection'[other] = file'
      <4>1. other = singleInstanceDatabaseMap /\ other # None
        BY <1>0, <3>1 DEF FileInvariant, SingleInstanceHasItsFile
      <4>2. connection[other] = file /\ file # None
        BY <3>1 DEF FileInvariant, SingleInstanceHasItsFile
      <4>. QED
        BY <2>2, <2>3, <2>4, <4>1, <4>2
    <3>. QED
      BY <2>2, <2>3, <2>4, <3>1 DEF SingleInstanceHasItsFile
  <2>. QED
    BY <2>6, <2>7, <2>8, <2>9, <2>10 DEF FileInvariant
<1>3. ASSUME NEW id \in Ids, SqlCall(id) PROVE FileInvariant'
  <2>1. /\ UNCHANGED <<mapVars, fileVars, locked, epoch>>
        /\ \E e : blocks' = blocks \cup {e} /\ e.kind = "sql"
    BY <1>3, Dispatched DEF SqlCall
  <2>. QED
    BY <2>1 DEF FileInvariant, SingleInInvariant, OneAwaited, ClosedNotMapped,
       DeleteAwaited, SingleInstanceHasItsFile, mapVars, fileVars, Closing
<1>4. ASSUME NEW id \in databaseMap, NEW kind \in Closing, RemoveFromMaps(id),
             kind = "delete" => id = singleInstanceDatabaseMap,
             Dispatch(kind, id), ~locked, locked' = TRUE,
             UNCHANGED <<fileVars, epoch, calls>>
      PROVE  FileInvariant'
  <2>1. /\ databaseMap' = databaseMap \ {id} /\ databases' = databases
        /\ singleInstanceDatabaseMap' \in {singleInstanceDatabaseMap, None}
        /\ \A other \in databaseMap' : databases[other].singleInstance =>
             other = singleInstanceDatabaseMap'
    BY <1>4, RemoveTyped, FileMap
  <2>2. PICK e : /\ blocks' = blocks \cup {e}
                 /\ e.kind = kind /\ e.id = id /\ e.epoch = epoch
    BY <1>4, Dispatched
  <2>3. \A b \in blocks : ~(b.kind \in Closing /\ b.epoch = epoch)
    BY <1>4 DEF FileInvariant, OneAwaited
  <2>4. SingleInInvariant'
    BY <2>1 DEF SingleInInvariant, FileInvariant
  <2>5. OneAwaited'
    BY <1>4, <2>2, <2>3 DEF OneAwaited
  <2>6. ClosedNotMapped'
    BY <2>1, <2>2 DEF ClosedNotMapped, FileInvariant
  <2>7. DeleteAwaited'
    <3>1. kind = "delete" => singleInstanceDatabaseMap' = None
      BY <1>0, <1>4 DEF RemoveFromMaps, FileInvariant, SingleInInvariant
    <3>. QED
      BY <1>4, <2>2, <2>3, <3>1 DEF DeleteAwaited, FileInvariant, Closing
  <2>8. SingleInstanceHasItsFile'
    BY <1>4, <2>1 DEF SingleInstanceHasItsFile, FileInvariant, fileVars
  <2>. QED
    BY <2>4, <2>5, <2>6, <2>7, <2>8 DEF FileInvariant
<1>5. ASSUME NEW id \in Ids, CloseDatabase(id) PROVE FileInvariant'
  BY <1>4, <1>5 DEF CloseDatabase, Closing, TypeOK
<1>6. CASE DeleteDatabase
  <2>1. CASE singleInstanceDatabaseMap # None
    BY <1>4, <1>6, <2>1 DEF DeleteDatabase, Closing, TypeOK
  <2>2. CASE singleInstanceDatabaseMap = None
    <3>1. \A id \in databaseMap : ~databases[id].singleInstance
      BY <1>0, <2>2 DEF FileInvariant, SingleInstanceHasItsFile
    <3>2. UNCHANGED <<mapVars, blocks, locked, epoch>>
      BY <1>6, <2>2 DEF DeleteDatabase
    <3>. QED
      BY <3>1, <3>2 DEF FileInvariant, SingleInInvariant, OneAwaited,
         ClosedNotMapped, DeleteAwaited, SingleInstanceHasItsFile, mapVars
  <2>. QED
    BY <2>1, <2>2
<1>7. CASE HotRestart
  <2>1. \A b \in blocks : b.kind # "delete"
    BY <1>7 DEF HotRestart
  <2>2. \A b \in blocks : b.epoch # epoch'
    BY <1>0, <1>7 DEF HotRestart, TypeOK
  <2>3. blocks' = blocks /\ UNCHANGED <<mapVars, fileVars>>
    BY <1>7 DEF HotRestart
  <2>4. OneAwaited' /\ DeleteAwaited'
    BY <2>1, <2>2, <2>3 DEF OneAwaited, DeleteAwaited
  <2>. QED
    BY <2>3, <2>4 DEF FileInvariant, SingleInInvariant, ClosedNotMapped,
       SingleInstanceHasItsFile, mapVars, fileVars
<1>8. ASSUME NEW b \in blocks, InDatabase(b) PROVE FileInvariant'
  <2>0. b.id \in Ids /\ databases[b.id].readOnly \in BOOLEAN
    BY <1>0 DEF TypeOK, Ids, Options
  <2>1. UNCHANGED <<mapVars, locked, epoch>> /\ blocks' \subseteq blocks
    BY <1>8 DEF InDatabase, Ran, dartVars
  <2>2. ASSUME NEW id \in databaseMap, databases[id].singleInstance
        PROVE  connection'[id] = file' /\ file' # None
    <3>1. connection[id] = file /\ file # None
      BY <2>2 DEF FileInvariant, SingleInstanceHasItsFile
    <3>2. CASE UNCHANGED file /\ Ran(b, connection)
      BY <3>1, <3>2, RanKeeps
    <3>3. CASE /\ connection[b.id] = None /\ Open(databases[b.id].readOnly)
               /\ Ran(b, [connection EXCEPT ![b.id] = file'])
      <4>1. file' = file
        BY <2>0, <3>1, <3>3, OpenTyped
      <4>2. connection'[id] = [connection EXCEPT ![b.id] = file'][id]
        BY <3>3, RanKeeps
      <4>3. id # b.id
        BY <3>1, <3>3
      <4>. QED
        BY <3>1, <4>1, <4>2, <4>3
    <3>. QED
      BY <1>8, <3>2, <3>3 DEF InDatabase
  <2>3. SingleInstanceHasItsFile'
    BY <2>1, <2>2 DEF SingleInstanceHasItsFile, FileInvariant, mapVars
  <2>. QED
    BY <2>1, <2>3, FewerBlocks DEF FileInvariant
<1>9. ASSUME NEW b \in blocks, RunClose(b) PROVE FileInvariant'
  <2>1. UNCHANGED <<mapVars, epoch>> /\ blocks' = blocks \ {b}
    BY <1>9 DEF RunClose, Ran
  <2>2. OneAwaited'
    <3>1. CASE b.epoch = epoch
      <4>1. \A d \in blocks' : ~(d.kind \in Closing /\ d.epoch = epoch)
        BY <1>9, <2>1, <3>1 DEF FileInvariant, OneAwaited, RunClose, Closing
      <4>. QED
        BY <2>1, <4>1 DEF OneAwaited
    <3>2. CASE b.epoch # epoch
      <4>1. locked' = locked
        BY <1>9, <3>2 DEF RunClose, Answer, TypeOK
      <4>. QED
        BY <2>1, <4>1, FewerBlocks
    <3>. QED
      BY <3>1, <3>2
  <2>3. ASSUME NEW id \in databaseMap, databases[id].singleInstance
        PROVE  connection'[id] = file' /\ file' # None
    <3>1. connection[id] = file /\ file # None /\ singleInstanceDatabaseMap # None
      BY <1>0, <2>3 DEF FileInvariant, SingleInstanceHasItsFile
    <3>2. b.kind # "delete" /\ b.id # id
      BY <1>9, <3>1 DEF FileInvariant, DeleteAwaited, ClosedNotMapped, RunClose,
         Closing
    <3>3. file' = file
      BY <1>9, <3>2 DEF RunClose
    <3>4. connection'[id] = [connection EXCEPT ![b.id] = None][id]
      BY <1>9, RanKeeps DEF RunClose
    <3>. QED
      BY <3>1, <3>2, <3>3, <3>4
  <2>4. SingleInstanceHasItsFile'
    BY <2>1, <2>3 DEF SingleInstanceHasItsFile, FileInvariant, mapVars
  <2>. QED
    BY <2>1, <2>2, <2>4, FewerBlocks DEF FileInvariant
<1>10. CASE UNCHANGED vars
  BY <1>10 DEF vars, FileInvariant, SingleInInvariant, OneAwaited, ClosedNotMapped,
     DeleteAwaited, SingleInstanceHasItsFile, mapVars, fileVars, dartVars
<1>. QED
  BY <1>1, <1>2, <1>3, <1>5, <1>6, <1>7, <1>8, <1>9, <1>10 DEF Next, Dart, Block

(* The native database that a reopening isolate would be given is in both  *)
(* maps and open on the file that is at the path, after any closes,        *)
(* deletes, stale calls and restarts, but for a restart in the middle of a *)
(* delete.                                                                 *)
THEOREM SingleInstanceFile ==
  ASSUME "restartInDelete" \notin Usage
  PROVE  Spec => [](TypeOK /\ SingleInstanceHasItsFile)
<1>. DEFINE I == TypeOK /\ FileInvariant
<1>1. Init => I
  BY InitInvariant
<1>2. I /\ [Next]_vars => I'
  BY TypeStep, FileStep, FileMap
<1>3. I => TypeOK /\ SingleInstanceHasItsFile
  BY DEF FileInvariant
<1>. HIDE DEF I
<1>. QED
  BY <1>1, <1>2, <1>3, PTL DEF Spec
=============================================================================
