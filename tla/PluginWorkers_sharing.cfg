\* Three concurrent requests for one persistent module, every grant sufficient,
\* one administrator change: sharing, timing out, replacing and re-replacing.
SPECIFICATION Spec
CONSTANTS
  Requests = {r1, r2, r3}
  Modules = {m1}
  OneShot = {}
  Grants = {g1, g2}
  Sufficient = {g1, g2}
  Server = Server
  None = None
  PoolSize = 3
  MaxDisk = 1
  MaxAdmin = 1
  MaxSpawnFaults = 0
SYMMETRY Symmetry
INVARIANTS
  TypeOK
  AnswerIsOwn
  NoOrphan
