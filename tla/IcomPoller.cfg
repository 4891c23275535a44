SPECIFICATION FairSpec
CONSTANTS
  Settings = {s1, s2, s3}
  None = None
  Threads = {t1, t2}
  NoThread = NoThread
INVARIANTS
  TypeOK
  OneConnection
  SnapshotIsInForce
  ShownIsRequested
  ConnectedIsBacked
PROPERTIES
  EveryRenderEnds
  SettingsTakeHold
CHECK_DEADLOCK FALSE
