\* A hot restart that leaves a BEGIN in flight.
SPECIFICATION FairSpec
CONSTANTS
  Clients = {c1}
  MaxTransactions = 1
  MaxRestarts = 1
  RollbackActiveTransactionOnOpen = TRUE
  PlainCalls = {"statement"}
  Faults = {}
PROPERTIES
  CallsAnswered
CHECK_DEADLOCK FALSE
