# A verification project for sqflite

sqflite is a SQLite plugin for Dart and Flutter. A Dart `Database` object talks,
by asynchronous method calls, to an implementation that owns the SQLite
connection: Java on Android, Objective-C on iOS and macOS, or a Dart isolate
that calls SQLite directly (FFI; the web runs the same code in a worker). This
directory holds TLA+ modules of the parts where asynchronous calls,
transactions, threads and restarts meet, the TLC configurations that check
them, and TLAPS proofs of what holds for every number of isolates, workers,
databases and statements.

Source paths below are relative to `src/`; `A/` stands for
`sqflite_android/android/src/main/java/com/tekartik/sqflite/`, `C/` for
`sqflite_common/lib/src/`, `F/` for `sqflite_common_ffi/lib/src/` and `D/` for
`sqflite_darwin/darwin/sqflite_darwin/Sources/sqflite_darwin/`.

## Inventory

| Component | State | Operations | Talks to |
|---|---|---|---|
| Dart factory, `C/factory_mixin.dart`, `C/database.dart` | one named lock per path, `databaseOpenHelpers`, a helper's `Database` | open, close, delete, downgrade by delete | native plugin, by method calls |
| Dart `Database`, `C/database_mixin.dart`, `transaction.dart`, `batch.dart` | `_rawLock`, `isClosed`, `inTransaction`, `txn.closed`, `transactionId` | statements, `transaction()`, batches, close with forced ROLLBACK | native database |
| Android plugin, `A/SqflitePlugin.java` | `databaseMap`, `_singleInstancesByPath`, `databaseWorkerPool` | the method-call handlers | `Database`, pool |
| Android database, `A/Database.java` | `currentTransactionId`, `lastTransactionId`, `transactionDepth`, `noTransactionOperationQueue` | execute, statements, batch, runQueuedOperations | SQLite, pool |
| Android worker pool, `A/DatabaseWorkerPool.java`, `DatabaseWorker.java` | waiting list, idle and busy workers, `onlyEligibleWorkers` | post, onWorkerIdle, quit | `Database` (is it in a transaction?) |
| FFI isolate, `F/sqflite_ffi_impl.dart`, `isolate_io.dart` | port, `_currentTransactionId`, `_noTransactionHandlerQueue` | the message handlers | SQLite |
| Darwin plugin, `D/SqflitePlugin.m`, `D/SqfliteDarwinDatabaseQueue.m` | `databaseMap`, `singleInstanceDatabaseMap`; of a queue, its serial dispatch queue and its connection | the method-call handlers; `inDatabase`, `close` | Darwin database, connection, file system |
| Darwin database, `D/SqfliteDatabase.m` | `currentTransactionId`, `lastTransactionId`, `inTransaction`, `noTransactionOperationQueue`, `cursorMap` | wrapper, BEGIN/COMMIT/ROLLBACK, statements, batches, pages of a query | Darwin plugin (queue), connection |
| Darwin connection (a fork of FMDB), `D/SqfliteDarwinDatabase.m`, `D/SqfliteDarwinResultSet.m` | `_db`, `_cachedStatements`, `_openResultSets`, `_isInTransaction`; of statements `_inUse` and the `sqlite3_stmt` | open, close, queries, updates, prepared statements, transactions; next, bind, close | SQLite |
| Cursors | pages of an open SELECT | query by page, next, cancel | native database |
| Isolate start-up, `F/isolate_io.dart:93-147` | registered port | spawn, register, look up | other Dart isolates |
| FFI async, web worker, sandbox, Spatialite helpers, SQL builder, platform interface | little or none | delegation, string building | |

`PROJECT.json` lists each of them with what is modelled. What makes each
component correct:

* **Dart factory**: one live handle per single-instance path; every open, close
  and delete completes; no native connection is left without a handle.
* **Dart Database**: actions run one after the other, first called first ran;
  a transaction is all or nothing; close rolls back first and completes.
* **Native database** (Android, FFI): at most one transaction; nothing else
  runs inside of it; calls parked meanwhile are run afterwards; both records of
  "in a transaction" agree.
* **Darwin database**: the same although the calls arrive in any order; what a
  reopening isolate is told of the transaction is right; a cursor belongs to one
  isolate and is found until it is closed.
* **Darwin plugin**: the single instance of a path is connected to the file at
  the path; every close and delete is answered.
* **Darwin connection**: result sets do not share a statement, and none loses its
  own to what is done with another; no statement is used after SQLite has
  finalized it; what the headers declare.
* **Worker pool**: the tasks of a database run one at a time and in order, those
  of a transaction on one thread, and no worker idles while it could work.

What is hard here: calls of several isolates interleave on one connection; a
transaction is a protocol of several asynchronous calls, of which any may fail;
SQLite may end a transaction by itself; on Darwin every call crosses a
concurrent queue and may overtake others; a hot restart drops one side of it; the
pool's threads, its monitor and its shutdown race with method calls; a closed
connection opens again for a late call; close races with everything. The list with source lines is `hazards` in
`PROJECT.json`.

## Modules

| Module | Models |
|---|---|
| `TransactionStore` | abstract: a store with one transaction at a time |
| `NativeDatabase` | `A/Database.java` below the isolates that share it |
| `NativeDatabaseProofs` | theorems about it |
| `NativeDatabaseRefinement` | more of them, and the proof that it implements `TransactionStore` |
| `DatabaseTaskQueues` | abstract: per-database FIFO execution of tasks |
| `DatabaseWorkerPool` | `A/DatabaseWorkerPool.java`, `A/DatabaseWorker.java` |
| `DatabaseWorkerPoolProofs` | theorems about it, and the proof that it implements `DatabaseTaskQueues` |
| `DatabaseFactory` | opening, closing, deleting: Dart factory, Android plugin and single-thread pool together |
| `DatabaseFactoryProofs` | theorems about it |
| `FfiDatabase` | the sqflite isolate of the FFI implementation |
| `SqfliteDatabase` | the Dart `Database` object; extends `FfiDatabase`, so the two are checked as one system |
| `SqfliteDatabaseProofs` | theorems about the two, and the proof that they implement `TransactionStore` |
| `DarwinDatabase` | `D/SqfliteDatabase.m` below the isolates that share it |
| `DarwinDatabaseProofs` | theorems about it |
| `DarwinPlugin` | opening, closing, deleting on Darwin: `D/SqflitePlugin.m` and `D/SqfliteDarwinDatabaseQueue.m` |
| `DarwinPluginProofs` | theorems about it |
| `DarwinResultSets` | abstract: what the headers declare of a connection and its result sets |
| `DarwinConnection` | `D/SqfliteDarwinDatabase.m`, `D/SqfliteDarwinResultSet.m` |
| `DarwinConnectionProofs` | theorems about it, and the proof that it implements `DarwinResultSets` |
| `MC...` | instances for TLC |

`PROJECT.json`'s `map` gives the source lines of every definition. Operators
under a comment "Fault injected" are not part of a specification: each is a
plausible mistake in the definition that follows it, and breaking a property
with it shows that the property depends on that line of the code.

### NativeDatabase

`tasks` are the posted tasks not yet started, `worker` is the pool's thread:
idle, about to post `runQueuedOperations` ("post"), or in its loop ("drain").
`RunOutsideTransaction`, `RunInTransaction` and `QueueForLater` are the three
branches of `wrapSqlOperationHandler`, and `RunBatch` is `batch()`, which does
not use it. The loop of `runQueuedOperations` takes one action per turn. A task
of a database runs alone, so a handler is one action; that the pool guarantees
it is what `DatabaseWorkerPool` shows. Replies are part of the action that
sends them: an isolate with a reply in transit does nothing else.

Clients follow the protocol of the Dart side: a call is awaited, COMMIT or
ROLLBACK is sent once whatever its outcome, a recovered database sends a forced
ROLLBACK. `HotRestart` forgets the Dart state at any moment; replies to the old
incarnation are dropped (`epoch`). SQLite is external. `Faults` lets it fail a
BEGIN or a COMMIT, or roll back a transaction inside a statement.

### DatabaseWorkerPool

One action per `tryPostingTaskToWorker` in the loops of `post` and
`onWorkerIdle`; `holder` has the monitor. The workers run concurrently:
`Start` and `Finish` do not need the monitor. Tasks begin or end a transaction
as they like. `DatabaseTaskQueues` states the comment of
`DatabaseWorkerPool.java:23-28` as a specification, and the pool refines it.

### DatabaseFactory

A handle goes through the Dart lock of its path, the method call, the
platform's handler, the worker's task, and back. Each arrow is an action, and
the handlers of two paths interleave. The pool is created and quit as in
`SqflitePlugin.java`; a looper that has quit drops what is posted to it.

### FfiDatabase and SqfliteDatabase

A message, and the queued handlers it releases, are done before the next
message. `Isolate` relies on this: the handlers await only futures that are
complete, or uncontended locks, so the event loop reaches the next message of
the port after all of their microtasks. `HandleOutside`, `HandleInTransaction`
and `QueueHandler` are the branches of `handleTransactionId`. A turn of
`_runQueuedHandlers` is a step, with the port blocked (`runningQueued`).
`Throw` follows an exception: it leaves the transaction when SQLite is found in
autocommit mode, except for a batch that stops at its first error, whose
exception is of another class.

In `SqfliteDatabase` a caller is an asynchronous function of the application;
`rawLock` is `_rawLock`, its head holds it. A call whose turn it is sends its
message at once, as Dart's `synchronized` does; otherwise it is `Granted`
later. Calls on a transaction object need no lock. They come from the callback
or, in flight at the same time, from other functions (`Overlap`).
`close` sets `isClosed`, reads `inTransaction`, and takes the lock for a forced
ROLLBACK or goes straight to the close. `checkNotClosed` is where the code has
it: at the call, and not in batches.

### DarwinDatabase

A method call becomes a block on a concurrent global queue and then on the
serial queue of the database: `inFlight` is a set, and any of it may run next,
also a call of an isolate that has been restarted since. One handler runs at a
time and is one action. `wrapSqlOperationHandler` has the three branches of
Android's, but the queue is emptied by the handler that ends the transaction
(`draining`), not by a task posted for it. `batch`, `queryCursorNext` and the
close of a cursor are not wrapped. `inTransaction` is the flag a reopening
isolate is told; unlike `currentTransactionId` it is set after BEGIN has
succeeded and cleared whatever COMMIT returned. A page of a query leaves a
cursor in `cursorMap` if there is another page. The isolates close a cursor
before its transaction ends, as the Dart code does; a hot restart forgets it.

### DarwinPlugin

The native databases of one path. The method-call handlers run one at a time;
`blocks` are what they sent to the global queue and has not run. `InDatabase`
is the queue's `database` method: it opens the connection again if it is
closed, for whatever block comes, which may create the file. Files are numbered
so that a connection to a deleted file is told from one to the file at the
path. The isolate may be restarted at any moment, except (unless
`"restartInDelete"` is in `Usage`) while a delete is unanswered. Nobody waits
for the block that sets extended result codes, nor for SQL calls.

### DarwinResultSets and DarwinConnection

`DarwinResultSets` is what `SqfliteDarwinDatabase.h`, `SqfliteDarwinResultSet.h`
and `SqfliteDarwinDatabaseAdditions.h` declare: result sets that move by
themselves through their rows, closed by their own end, by their `close` or
with the connection. Their comments, not code, are its source: it is a contract
that the code is shown to implement. `DarwinConnection` translates the methods:
the statement cache with its `inUse` flags, `openResultSets` whose pointers
retain nothing, automatic closing, deallocation when the last reference goes,
and `close` with its loop that finalizes what SQLite still has. `Settle` is the
end of a method: objects nobody retains are deallocated, which finalizes their
`sqlite3_stmt`; it records in `undefined` any use of one that was finalized
behind its object's back. `KeepCursor` is the plugin's call of
`resultSetDidClose` on a result set it keeps open as a cursor: the connection
then no longer knows of it, and `close` finalizes its statement and leaves it
open (`kept` in `DarwinResultSets`). `ExecuteQueryFails` and `BindFails` are the
failing binds of a cached statement and of a prepared result set: `bindStatement`
finalizes the `sqlite3_stmt` and its object keeps the pointer (`BindFailed`).
Both may happen at any time. Once a finalized `sqlite3_stmt` has been used
nothing can be said, so the model stops there (`~undefined` in `Next`): its
properties hold up to that use and for the step that makes it. `Misuses` names
two more things the code goes wrong on, which the run leaves out.

## Runs

All runs finish within the five-minute budget with two TLC workers.

| Run | Instance | Shows |
|---|---|---|
| `NativeDatabase` | 3 isolates, 3 BEGINs, BEGIN/COMMIT may fail, fairness | atomicity, refinement of `TransactionStore` (isolation); a call unanswered for ever is parked behind a failed COMMIT |
| `NativeDatabaseFaults` | 2 isolates, a restart each, 2 BEGINs, batches, every fault | no parked call forgotten, none parked behind its own transaction, both transaction records agree |
| `DatabaseWorkerPool` | 2 workers, 2 databases, 4 tasks, fairness | the rules of the pool, refinement of `DatabaseTaskQueues`, every task starts |
| `DatabaseFactory` | 1 path, every operation, failing opens and callbacks | operations complete, one connection, none lost |
| `DatabaseFactoryHandles` | 2 paths, one close per open | single instance, the live handle works |
| `SqfliteDatabase` | 1 `Database`, 3 callers, 2 BEGINs, BEGIN/COMMIT may fail, overlapping batches, close | actions do not overlap; closed inside a transaction only if its COMMIT failed; refinement of `TransactionStore`; a close that does not complete waits for a lock stranded behind a failed COMMIT |
| `SqfliteDatabaseShared` | 3 `Database` objects on one isolate, 2 BEGINs, BEGIN/COMMIT may fail, SQLite may roll back | no handler forgotten; refinement of `TransactionStore`: none runs inside another's transaction, a detected rollback ends the transaction everywhere; calls and transactions complete unless parked behind a failed COMMIT |
| `DarwinDatabase` | 2 isolates, a restart each, 2 BEGINs, 2 queries, BEGIN/COMMIT may fail | no parked call forgotten, one writer per transaction, reopening isolates are told the right state, cursors found, exclusive and not leaked |
| `DarwinPlugin` | 3 native databases of a path, 1 SQL call, 1 restart, fairness | the single instance is connected to the file at the path, closes and deletes are answered |
| `DarwinConnection` | 2 queries, 3 result sets, 4 statements, 1 row, failing binds, close under cursors | statements are not shared; one is finalized under its result set only by the set's own failing bind, or for a cursor by the close of the connection; refinement of `DarwinResultSets` |

Why these bounds: the shared state of a database is one transaction slot and
one queue. Three parties are one to hold the slot and two in the queue, which
is the least at which draining the queue can start a transaction with a call of
another isolate left behind it (with two `Database` objects on the FFI isolate
the mistake of not looking at the current transaction again is not caught). Two workers and two databases let
a worker be stolen and a database be pinned; four tasks are needed for one to
be left waiting beside an idle worker. On Darwin two isolates are enough because
blocks are unordered: calls of one isolate, before and after its restart, meet
those of the other in every order. Three native databases are the single
instance, the one it replaces and one opened with `singleInstance: false`. With
three result sets and four statements a statement is read, another cached and
free, another cached while read by a second result set, and one is left to
prepare; one row is enough to tell a result set that has moved from one that has
not. Behind a failed COMMIT three callers are one whose BEGIN is stranded, one that
waits for the lock it holds, and one that closes.
`MaxTransactions`, `MaxQueries`, `MaxRestarts`, `MaxTasks`, `MaxOpens`, `MaxCalls`,
`MaxRows` and the counters of `DatabaseFactory` are the only bounds,
all on inputs; ids are not reused, so later transactions are like earlier ones.
The runs without deadlock checking are those in which the system may stop for
good: a closed database, a bound reached, calls parked behind a transaction that
nobody ends, or a finalized statement used.

**Fairness.** Threads, loopers and event loops run (weak fairness of the worker
or the isolate, and of what a caller does next by itself). Strong fairness says
that a transaction's callback does not make calls for ever, which the code
cannot ensure and every use assumes. Nothing is assumed of what applications
start, nor that COMMIT succeeds: after a failed one the transaction is nobody's,
and the properties of `NativeDatabase`, `SqfliteDatabase` and
`SqfliteDatabaseShared` say exactly who may then wait for good. On Android it is
what is parked behind that transaction (`CallsAnsweredUnlessAbandoned`). On FFI
it is what waits for the lock of a `Database` object whose holder is parked
there (`LockStranded`): stated of calls and transactions without a close in
`SqfliteDatabaseShared`, of a close amid overlapping calls in `SqfliteDatabase`.
(TLC finds `ActionsCompleteUnlessStranded` true in `SqfliteDatabase.cfg` as well,
in twice the time.) In the pool weak fairness of each worker's
steps is enough because the number of posts is bounded. On Darwin the global
queue runs every block it is given: weak fairness, for each native database, of
the block that closes or deletes it.

### Disagreements between documentation and code

Each is a run in which TLC reaches the violation.

| Run | Says | Does |
|---|---|---|
| `NativeDatabaseOrphan` | `sqflite/CHANGELOG.md:183`: hot restart in a transaction is supported | if the BEGIN was still in flight nobody owns it, and every later call is parked |
| `DatabaseFactoryCloseAll` | `C/database_mixin.dart:1023`: close should never fail | two databases closed together: the first close quits the pool, the second is never answered |

Others, which the same modules show when a constant is changed or the property
named here is put into the cfg:

* FFI: a failed COMMIT (a deferred foreign key, a busy database) leaves
  `_currentTransactionId` set (`F/sqflite_ffi_impl.dart:1085`). The next BEGIN is
  parked for good (`:301-305`) with `_rawLock` held, every other call waits for
  the lock, and so does `close`, although `C/database_mixin.dart:1023` says that
  it "should never fail" (`isClosed[d] ~> ~isOpen` in place of
  `CloseCompletesUnlessStranded` in `SqfliteDatabase.cfg`).
* Darwin, `D/SqfliteDarwinDatabase.h:815` says of `close` "Close all open result
  sets". One kept as a cursor has been taken out of `openResultSets`
  (`D/SqfliteDatabase.m:292`): closing the connection finalizes its statement
  and leaves it open; the next page, the close of the cursor or its deallocation
  uses a finalized `sqlite3_stmt` (`NoUseAfterFinalize` in
  `DarwinConnection.cfg`).
* Darwin, `D/SqfliteDarwinDatabase.m:904` says "the statement gets closed in
  rs's dealloc or [rs close]". A bind that fails finalizes it as well (`:948`,
  `:988`, `:998`), also when the cache or a prepared result set holds it, which
  then uses it again (`NoUseAfterFinalize` in `DarwinConnection.cfg` without
  `KeepCursor`). The plugin neither prepares nor caches.
* `sqflite_common_test/lib/transaction_test.dart:518-528` says that after a
  conflict with ROLLBACK the next insert fails and the table stays empty. On
  Android the next statement of the callback is durable at once (`AllOrNothing`
  with `"autoRollback"` in `Faults` of `NativeDatabase.cfg`).
* `sqflite_common/lib/sqlite_api.dart:483` says one instance per path; after
  `onDatabaseDowngradeDelete` a second open returns another object
  (`SingleInstance` with `"downgradeDelete"` in `Usage` of
  `DatabaseFactoryHandles.cfg`).
* After SQLite's own rollback on Android, COMMIT fails and every call without
  the id is parked for good (`CallsAnswered`, one client, `Faults =
  {"autoRollback"}`).
* Android's `batch()` of one isolate runs inside the transaction of another
  (`PlainCalls = {"statement", "batch"}` in `NativeDatabase.cfg`).
* A second live isolate that opens with `rollbackActiveTransactionOnOpen`
  destroys the first one's transaction, whose later statements are durable
  (`AllOrNothing` with `RollbackActiveTransactionOnOpen = TRUE` in
  `NativeDatabase.cfg`).
* Closing a handle again after its path was reopened breaks the single instance
  (`"closeAgain"` in `Usage` of `DatabaseFactoryHandles.cfg`).
* FFI: a batch that stops at its first error hides SQLite's rollback
  (`TransactionCalls = {"batch"}` in `SqfliteDatabaseShared.cfg`), and so does
  a second call in flight on the same transaction (`Overlap` with
  `"autoRollback"` in `SqfliteDatabase.cfg`): the next statement is durable.
* `C/database_mixin.dart:989` says that the close rolls any pending transaction
  back if needed; one whose COMMIT failed it does not, because `inTransaction`
  is already false (`RollbackBeforeClose` without `CommitFailed`).
* Calls that wait for `_rawLock` when close is called are sent after it, and
  `Batch.apply` does not check `isClosed`, although the comment at
  `C/database_mixin.dart:476` says that a closed database "should no longer
  invoke native code". The isolate answers them with an error.
* Darwin, `isInTransaction` stays true when the connection is closed in a
  transaction (`ImplementsResultSets` with `"closeInTransaction"`), and does not
  know a BEGIN executed as SQL, although `D/SqfliteDarwinDatabase.h:794` says
  "Identify whether currently in a transaction or not". The plugin keeps a flag
  of its own.
* Darwin, `bindWithArray` on a cached statement resets `inUse`
  (`D/SqfliteDarwinResultSet.m:459`): the cache gives it out a second time
  (`StatementsNotShared` with `"rebindCached"`). The plugin neither prepares nor
  caches.
* Darwin, a delete in flight when Dart is hot restarted removes the file under
  the connection the new isolate has opened (`SingleInstanceHasItsFile` with
  `"restartInDelete"` in `Usage` of `DarwinPlugin.cfg`). And a block that comes
  after a delete opens the connection again and creates the file anew
  (`D/SqfliteDarwinDatabaseQueue.m:158`), which the model has; the single
  instance opened meanwhile is not affected, which is what the property says.

Read in the code, and not told apart by the models:

* `D/SqflitePlugin.m:302`: an error of `sqlite3_step` in the middle of a page
  looks like its end: the page is reported as a success, truncated.
* A query with too few arguments is reported as an empty success, and so is one
  whose connection could not be opened again.
* `D/SqfliteDarwinDatabase.m:1057`: `executeUpdate` of a statement that returns a
  row reports failure although the row was written.

## Proofs

`NativeDatabaseProofs` proves, for any sets of clients, calls and faults and
any bounds:

* `TypeCorrect` - `Spec => []TypeOK`.
* `ParkedCallsNotForgotten` - `Spec => []NoLostWakeUp`. The strengthening is
  `TypeOK`, which says what may be in the task list: `NoLostWakeUp` is then
  inductive as it stands. Lemmas about sequences show that a
  `runQueuedOperations` stays posted until it starts; the interesting step is
  the end of a transaction, which must decide in the same task.
* `DepthMatches` - `Spec => []DepthMatchesCurrentTransaction`: a forced ROLLBACK, a failed
  BEGIN and a COMMIT of a transaction SQLite has already ended all change both
  records or none. The inductive invariant adds that SQLite is in a transaction
  only while the native side is.

`NativeDatabaseRefinement` proves

* `NeverParkedBehindItself` - `Spec => []NoSelfDeadlock`, with every fault. Ids
  are handed out in order (`ParkedInvariant`): what is parked has an older id
  than any transaction begun later.
* `Atomicity` - `[]AllOrNothing` - and `Implements` - `Spec =>
  ImplementsTransactionStore`, under `SafeUse`: SQLite ends no transaction by
  itself, no isolate rolls back another's (the open option is off), and batches
  are sent in transactions; these are the cases in which the code breaks both,
  listed above. Hot restarts are not excluded. The argument
  (`ProtocolInvariant`): an isolate has one call in flight and waits for it
  (`OneCallEach`, `Awaited`); whoever holds an id holds the current one, and a
  call in flight that has an id has the current one and comes from the isolate
  that holds or, before a restart, held it (`Owned`); and SQLite is in the
  current transaction and has only its writes pending (`Stored`). So no call
  with an id outlives its transaction in the task list, where it would run
  outside of it.

`DatabaseWorkerPoolProofs` proves, for any sets of workers and databases and
any number of tasks, from `PoolAssumption` (the null values are not workers or
databases):

* `PoolTypeCorrect`, and `PoolInvariantHolds`, the inductive invariant: a worker
  is idle with nothing posted to it, or has one task posted, or is working on
  one (`Occupation`); a task in its hands binds the task's database to it
  (`Binding`); the loop under the monitor tries idle workers only
  (`MonitorSafe`). From it `NoOverlap` (two workers never hold tasks of one
  database) and `TransactionAffinity` (a transaction stays on the thread that
  began it).
* `EnoughTries` - `Spec => []NoIdleWorkerLeft`. `post` and `onWorkerIdle` try
  each idle worker once, in some order, and never start over. The invariant
  (`Tried`) says that an idle worker that is not still to be tried may run
  nothing that waits, also while the monitor is held: giving a task away only
  takes a database away from the other workers, so that no worker tried before
  becomes eligible.
* `Implements` - `Spec => ImplementsDatabaseTaskQueues`. Tasks wait in the order
  of their numbers, and what a worker has been given was posted before every
  task of the same database that still waits (`OrderInvariant`).

`DarwinDatabaseProofs` proves, for any sets of isolates and faults and any
bounds:

* `TypeCorrect` and `ParkedCallsNotForgotten`, as on Android: a parked call has
  an active transaction or the loop that will run it.
* `OneWriter` - `Spec => []OneWriterPerTransaction`. The invariant
  `TransactionInvariant` says that SQLite is in a transaction only while
  `currentTransactionId` is set, and that what is uncommitted carries that id
  (batches aside). The wrapper alone gives the step: what it lets through
  carries the current id, in whatever order the blocks run.
* `RecoveredState` - `Spec => []RecoveredStateIsRight`. It needs
  `HoldersInvariant`: an id is never used again, so an isolate that holds a
  transaction is the only one to hold it, and a call in flight with its id is of
  that isolate, not of what it was before a restart.
* `CursorsFound` - `Spec => []CursorsAccountedFor`: the cursor an isolate holds
  is open on the native side and held by no other isolate; until an isolate
  restarts no cursor is left open that is neither held nor about to be closed.
  The invariant (`CursorInvariant`) says what an unanswered call tells about
  cursors (`CallFits`): an isolate that awaits a page still holds its cursor, one
  that awaits a new cursor or the end of one holds none, and any other call,
  such as one sent before a restart, names a cursor that is nobody's any more.

`DarwinPluginProofs` proves, for any number of databases, calls and restarts:

* `TypeCorrect` - `Spec => []TypeOK`, without a condition. `MapInvariant` makes
  it inductive: the map of single instances has exactly the mapped database that
  was opened as one.
* `SingleInstanceFile` - `Spec => []SingleInstanceHasItsFile`, provided no
  restart comes in the middle of a delete (`"restartInDelete"` not in `Usage`,
  the case above in which it fails). At most one close or delete is unanswered
  (`OneAwaited`), a native database being closed is out of the map
  (`ClosedNotMapped`), and a delete in flight is awaited by the isolate, which
  holds the path's lock (`DeleteAwaited`); so nothing is open on the path when
  the file goes.

`DarwinConnectionProofs` proves, for any sets of queries, statements and result
sets: `TypeCorrect`; and, if no cached statement is bound again (`"rebindCached"`
not in `Misuses`), `NotShared` - `Spec => []StatementsNotShared` - and
`OthersKeepStatements` - `Spec => StatementsKept`. Both rest on
`CacheInvariant`: a cached statement exists and has a pointer, one that is read
exists, and one that is both is flagged `inUse`; hence what `executeQuery` finds
is read by nobody, so that neither giving it out nor finalizing it in a bind that
fails touches another result set. `OthersKeepStatements` does not exclude failing
binds, nor that the connection is closed under a cursor: it says that these two
are the only ways to lose a statement, and to whom.

It also proves `Implements` - `Spec => ImplementsResultSets` without
either of the `Misuses`: the initial states correspond, and every
method is a step of `DarwinResultSets` or changes nothing of it. It uses
`CacheInvariant`, without which stepping one result set, or closing the
connection, would move another, and `LifeInvariant`: a result set that reads a
statement is referred to, a prepared one is known to the connection, and
`isInTransaction` is SQLite's state.

`SqfliteDatabaseProofs` proves, for any number of callers and `Database`
objects on one sqflite isolate. Its invariants are layered, each inductive given
those before it:

* `LockInvariant`: types; the head of `_rawLock`'s queue is the one that holds
  it; a call on a transaction is made while its callback runs; the loop over the
  queued handlers runs outside of a transaction. From it `TypeCorrect` and
  `NoHandlerForgotten` - `Spec => []NoLostWakeUp`, whatever SQLite does.
* `CallInvariant`, while the connection is open: a message in the port or in the
  isolate's queue is the one its sender waits for, and ids go to one transaction
  each. It gives `OneActionAtATime` - `Spec => []ActionsDoNotOverlap`, whatever
  SQLite does.
* `CloserInvariant` and `CloseInvariant`: one caller closes, its ROLLBACK is the
  last to pass the lock before the close, and whatever transaction there is has
  somebody to end it before. They give `RolledBackBeforeClose`: provided COMMIT
  does not fail (`"commit"` not in `Faults`), `Spec => RollbackBeforeClose`, and
  more, that no transaction at all is open when the connection is closed. That is
  not a convenience: after a failed COMMIT the isolate is still in the
  transaction while the `Database` object says it is in none, so that close rolls
  nothing back. `NoCallOutlivesClose` says under the same condition what
  `ActionsDoNotOverlap` says, of a closed connection too; after a failed COMMIT
  calls parked in the isolate outlive it.
* `StoreInvariant`: the current transaction is the one SQLite has open, every
  call on its way is on it, and whoever believes to be in a transaction is in it
  or has an answer coming that says otherwise. It gives `Implements` -
  `Spec => ImplementsTransactionStore` - under `StoreUse`: if SQLite may roll
  back by itself, calls on a transaction are made one at a time and are no
  batches that stop at their first error, the two cases above in which the
  rollback goes unnoticed. Failing BEGINs and COMMITs are not excluded.

`DatabaseFactoryProofs` proves, for any number of paths, isolates and opens:

* `TypeCorrect` - `Spec => []TypeOK`, whatever `Usage` allows. `TypeInvariant`
  adds that an id a client names is of a database of its path, and that a posted
  task is the one its client waits for.
* `OneInstance` - `Spec => []SingleInstance` under `CarefulUse`: no handle is
  closed again, no open database deleted, no downgrade deletes. Each of these
  removes an open helper too early and breaks the property (see above). Opens
  and callbacks may fail and closed databases be deleted. `HelperInvariant` says
  which Database object the helper of a path has at each stage of an operation.
* `LiveHandlesWork` - `Spec => []LiveHandleWorks` under `CarefulUse` and
  `OneIsolatePerPath` (of two isolates with one path the second shares the
  first's database, which is closed under it). `WorkingInvariant` extends the
  property to the database of an open that is answered and not yet returned; a
  step of the plugin for one path touches no database of another
  (`NativeElsewhere`), although the pool is quit for all of them.
* `NothingLost` - `Spec => []NoConnectionLost` - and `OneConnectionAtATime` -
  `Spec => []OneConnection`, for one path in one isolate (`OneClient`), with
  every misuse and failure. The invariant (`PoolServes`): the map of databases
  has at most the open instance, and none while the plugin works for the client;
  every open connection is in the map or being closed; and while one is open
  there is a pool to close it. With two paths both fail: the close that empties
  the map quits the pool, and the task that closes the other database is dropped
  or never posted, so that its connection stays open, also when the path is
  opened again. TLC shows it with `TwoPaths` in `DatabaseFactory.cfg`.

Only model-checked: what a run checks under fairness (`CallsAnsweredUnlessAbandoned`,
`EveryTaskRuns`, `OperationsComplete`, `CloseCompletesUnlessStranded`,
`ActionsCompleteUnlessStranded`, `OperationsAnswered`). Liveness under fairness,
ENABLED and induction over data are out of the prover's reach. Every safety property and every refinement that a
passing run checks is stated by a theorem, under the assumptions above; of
`RollbackBeforeClose` the case in which a COMMIT fails is only model-checked.

## What the models leave out

* Cursors of Android and FFI, start-up of the isolate, the web worker and FFI
  async (see the components).
* Of the FMDB fork: save points, checkpoints, `executeStatements`, encryption,
  SQL functions, dates and column conversions, and the queue's own transaction
  blocks, which the plugin never uses.
* Of the Darwin plugin: options, debug, in-memory databases, several paths
  (their databases share nothing), and SQLite's own rollbacks, which Darwin
  does not look for (as Android).
* Two details of Darwin: closing a queue, deleting the file and answering are one
  step (`D/SqflitePlugin.m:612-619`, `666-671`), so that a late block opens the
  connection again before or after them, not in between; and a cursor
  that is not found is answered as a success that carries a `FlutterError`
  (`D/SqfliteDatabase.m:321-326`), which is one with an error here.
* A transaction run by hand with `execute('BEGIN')` on the database object.
* Read-only databases, which send no BEGIN or COMMIT; calls made from
  `onCreate`/`onUpgrade`.
* In `NativeDatabase`, opening and closing of the native connection, and
  several calls of one isolate in flight; `SqfliteDatabase` has the latter, on
  FFI.
* Starvation of parked calls by ever new transactions: BEGINs are bounded.
* In `SqfliteDatabase`: callbacks that do not await their calls, or that wait
  for the database's own lock (documented deadlock).
* In `DatabaseFactory`: several workers (the default thread count is one), two
  isolates on one path, hot restarts, and the unsynchronised check of
  `databaseWorkerPool` in `onDeleteDatabaseCall`.

## Plan

1. The transaction protocol of the Android database, its abstract store, the
   worker pool and its abstract queues, their type and safety proofs (done).
2. Opening, closing, deleting (done for one isolate per path).
3. The Dart `Database` on the FFI isolate (done); then on `NativeDatabase`
   instead of `FfiDatabase`.
4. The Darwin plugin: its database, its queue, its connection and result sets,
   with their type and safety proofs and a refinement proof (done).
5. Cursors: on Darwin (done); on Android and FFI.
6. The port server's start-up protocol; two isolates on one path in
   `DatabaseFactory`; `quit` and `threadCount` with several workers.
7. Proofs: types, safety and the refinements of `TransactionStore` (Android and
   FFI), `DatabaseTaskQueues` and `DarwinResultSets` (done). Next:
   `TransactionStore` for Darwin, where `OneWriterPerTransaction` is what is
   stated now; a task counterpart of `NoConnectionLost` for several paths, with
   the connections that a quit of the pool gives up counted apart; and the
   functional lemmas on sequences that several proof modules repeat.
