\* Two queries, three result sets, a cache that may hold all statements.
SPECIFICATION Spec
CONSTANTS
  Queries = {q1, q2}
  ResultSets = {r1, r2, r3}
  Statements = {s1, s2, s3, s4}
  None = None
  MaxRows = 1
  Misuses = {}
SYMMETRY Symmetry
INVARIANTS
  TypeOK
  StatementsNotShared
PROPERTIES
  StatementsKept
  ImplementsResultSets
\* Nothing follows the use of a finalized statement.
CHECK_DEADLOCK FALSE
