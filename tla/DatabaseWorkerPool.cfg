\* Two workers, two databases.
SPECIFICATION FairSpec
CONSTANTS
  Databases = {d1, d2}
  Workers = {w1, w2}
  MaxTasks = 4
  NoDatabase = NoDatabase
  NoWorker = NoWorker
  PlatformThread = PlatformThread
INVARIANTS
  TypeOK
  OneWorkerPerDatabase
  TransactionKeepsWorker
  NoIdleWorkerLeft
PROPERTIES
  ImplementsDatabaseTaskQueues
  EveryTaskRuns
\* The last tasks may leave every worker idle.
CHECK_DEADLOCK FALSE
