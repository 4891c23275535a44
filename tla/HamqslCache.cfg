SPECIFICATION FairSpec
CONSTANTS
  Scripts = {s1, s2}
  Products = 1
  NoFile = NoFile
PROPERTIES
  StaleIsTold
  CardsRecover
CHECK_DEADLOCK FALSE
