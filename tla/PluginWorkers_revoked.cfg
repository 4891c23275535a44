\* One grant lacks a required permission or secret.
SPECIFICATION Spec
CONSTANTS
  Requests = {r1, r2}
  Modules = {m1}
  OneShot = {}
  Grants = {g1, g2}
  Sufficient = {g1}
  Server = Server
  None = None
  PoolSize = 2
  MaxDisk = 1
  MaxAdmin = 1
  MaxSpawnFaults = 0
PROPERTY
  ChangeReplacesProcess
