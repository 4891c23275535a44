SPECIFICATION FairSpec
CONSTANTS
  Manual = {m1}
  Loop = Loop
  First <- MCFirst
  Labels = {"beta", "stable"}
  PageSize = 2
  MaxHistory = 3
  Marked = TRUE
  NoRow = NoRow
INVARIANTS
  TypeOK
  ArrowPointsUp
  FirstIsHighest
PROPERTIES
  StatusConverges
CHECK_DEADLOCK FALSE
