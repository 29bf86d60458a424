\* Two databases closed at the same time.
SPECIFICATION FairSpec
CONSTANTS
  c1 = c1
  c2 = c2
  p1 = p1
  p2 = p2
  Clients = {c1, c2}
  Paths = {p1, p2}
  PathOf <- TwoPaths
  MaxOpens = 1
  Usage = {}
PROPERTIES
  ClosesComplete
CHECK_DEADLOCK FALSE
