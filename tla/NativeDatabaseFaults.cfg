\* Two isolates, hot restarts, recovery, batches, every fault.
SPECIFICATION Spec
CONSTANTS
  Clients = {c1, c2}
  MaxTransactions = 2
  MaxRestarts = 1
  RollbackActiveTransactionOnOpen = TRUE
  PlainCalls = {"statement", "batch"}
  Faults = {"begin", "commit", "autoRollback"}
SYMMETRY ClientSymmetry
INVARIANTS
  TypeOK
  NoLostWakeUp
  DepthMatchesCurrentTransaction
  NoSelfDeadlock
\* A transaction SQLite has rolled back parks every later call for good.
CHECK_DEADLOCK FALSE
