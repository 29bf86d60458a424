\* Two isolates, each restarted once: transactions, batches, cursors, failing BEGINs and COMMITs.
SPECIFICATION Spec
CONSTANTS
  Clients = {c1, c2}
  MaxTransactions = 2
  MaxQueries = 2
  MaxRestarts = 1
  Faults = {"begin", "commit"}
SYMMETRY Symmetry
INVARIANTS
  TypeOK
  NoLostWakeUp
  OneWriterPerTransaction
  RecoveredStateIsRight
  CursorsAccountedFor
\* Calls stay parked behind a transaction that nobody ends.
CHECK_DEADLOCK FALSE
