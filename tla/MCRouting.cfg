\* Three peers with two virtual nodes each, every order of them on the ring.
CONSTANTS
  a = a
  b = b
  c = c
  Peers = {a, b, c}
  VNodes = 2
  RF = 2
  MaxChanges = 2
SPECIFICATION FairSpec
INVARIANTS
  SearchLandsOnSuccessor
  RouteIsClockwise
  RemovalIsStable
PROPERTIES
  RouteEnds
CHECK_DEADLOCK FALSE
