\* Every thread is scheduled, plugins may hang, the pool has one thread less than
\* there is work for while the server stops.
SPECIFICATION FairSpec
CONSTANTS
  Requests = {r1, r2}
  Modules = {m1, m2}
  OneShot = {m2}
  Grants = {g1, g2}
  Sufficient = {g1}
  Server = Server
  None = None
  PoolSize = 2
  MaxDisk = 1
  MaxAdmin = 0
  MaxSpawnFaults = 1
PROPERTIES
  EveryRequestEnds
  ShutdownEnds
  ImplementsFairService
