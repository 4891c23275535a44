\* Two requests over two persistent modules, whose files change on disk; Popen can
\* fail once.
SPECIFICATION Spec
CONSTANTS
  Requests = {r1, r2}
  Modules = {m1, m2}
  OneShot = {}
  Grants = {g1, g2}
  Sufficient = {g1, g2}
  Server = Server
  None = None
  PoolSize = 2
  MaxDisk = 2
  MaxAdmin = 1
  MaxSpawnFaults = 1
SYMMETRY ModuleSymmetry
INVARIANTS
  ServedAsGranted
  OneWorkerPerModule
  StaleIsSuperseded
  CleanExit
PROPERTY
  ImplementsService
