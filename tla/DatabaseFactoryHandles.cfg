\* Two paths, each opened, closed once per open and deleted when closed.
SPECIFICATION Spec
CONSTANTS
  c1 = c1
  c2 = c2
  p1 = p1
  p2 = p2
  Clients = {c1, c2}
  Paths = {p1, p2}
  PathOf <- TwoPaths
  MaxOpens = 2
  Usage = {"delete", "openFails", "callbackFails"}
INVARIANTS
  SingleInstance
  LiveHandleWorks
\* A dropped task leaves its caller waiting.
CHECK_DEADLOCK FALSE
