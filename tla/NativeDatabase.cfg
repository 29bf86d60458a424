\* Three isolates, transactions and plain calls, BEGIN and COMMIT may fail.
SPECIFICATION FairSpec
CONSTANTS
  Clients = {c1, c2, c3}
  MaxTransactions = 3
  MaxRestarts = 0
  RollbackActiveTransactionOnOpen = FALSE
  PlainCalls = {"statement"}
  Faults = {"begin", "commit"}
INVARIANTS
  AllOrNothing
PROPERTIES
  ImplementsTransactionStore
  CallsAnsweredUnlessAbandoned
\* After a COMMIT that failed every isolate may end up parked.
CHECK_DEADLOCK FALSE
