\* One path: whatever the application does with it.
SPECIFICATION FairSpec
CONSTANTS
  c1 = c1
  c2 = c2
  p1 = p1
  p2 = p2
  Clients = {c1}
  Paths = {p1}
  PathOf <- OneIsolate
  MaxOpens = 3
  Usage = {"closeAgain", "delete", "deleteOpened", "openFails", "callbackFails", "downgradeDelete"}
INVARIANTS
  TypeOK
  NoConnectionLost
  OneConnection
PROPERTIES
  OperationsComplete
\* The application may stop using the database.
CHECK_DEADLOCK FALSE
