\* Three Database objects of a single instance share the sqflite isolate; COMMIT may fail.
SPECIFICATION FairSpec
CONSTANTS
  c1 = c1  c2 = c2  c3 = c3  db1 = db1  db2 = db2  db3 = db3
  Callers = {c1, c2, c3}
  Databases = {db1, db2, db3}
  DatabaseOf <- OwnDatabase
  Faults = {"begin", "commit", "autoRollback"}
  PlainCalls = {"batch"}
  TransactionCalls = {"batchContinue"}
  Closes = FALSE
  Overlap = FALSE
  MaxTransactions = 2
INVARIANTS
  NoLostWakeUp
PROPERTIES
  ImplementsTransactionStore
  ActionsCompleteUnlessStranded
\* Behind a failed COMMIT everybody may wait for good.
CHECK_DEADLOCK FALSE
