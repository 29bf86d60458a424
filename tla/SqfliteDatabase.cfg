\* One Database object, overlapping calls on a transaction, close at any
\* time; BEGIN and COMMIT may fail.
SPECIFICATION FairSpec
CONSTANTS
  c1 = c1  c2 = c2  c3 = c3  db1 = db1  db2 = db2  db3 = db3
  Callers = {c1, c2, c3}
  Databases = {db1}
  DatabaseOf <- OneDatabase
  Faults = {"begin", "commit"}
  PlainCalls = {"statement"}
  TransactionCalls = {"batch"}
  Closes = TRUE
  Overlap = TRUE
  MaxTransactions = 2
INVARIANTS
  TypeOK
  ActionsDoNotOverlap
PROPERTIES
  RollbackBeforeClose
  ImplementsTransactionStore
  CloseCompletesUnlessStranded
\* A closed database is left alone.
CHECK_DEADLOCK FALSE
