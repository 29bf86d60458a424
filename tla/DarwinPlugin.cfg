\* Three native databases, an SQL call that may outlive them, a hot restart.
SPECIFICATION FairSpec
CONSTANTS
  MaxOpens = 3
  MaxCalls = 1
  MaxRestarts = 1
  Usage = {"newInstance", "readOnly"}
INVARIANTS
  TypeOK
  SingleInstanceHasItsFile
PROPERTIES
  OperationsAnswered
\* An application may do nothing more.
CHECK_DEADLOCK FALSE
