SPECIFICATION FairSpec
CONSTANTS
  Pages = {p1, p2}
  Sockets = {k1, k2}
  Nobody = Nobody
  MaxConfig = 2
INVARIANTS
  LiveAreListed
PROPERTIES
  PagesCatchUp
CHECK_DEADLOCK FALSE
