SPECIFICATION Spec
CONSTANTS
  Threads = {t1, t2}
  Versions = {v1, v2}
  None = None
  MaxSources = 1
  Names = {"a_b", "a-b", "c"}
  Variables = {"A_B", "C"}
  Normal <- MCNormal
  Permissions = {net}
  EnvNames = {e1}
  FileRefs = {f1}
  NoRef = NoRef
  NoValue = NoValue
SYMMETRY Symmetry
INVARIANTS
  TypeOK
  KeepsACopy
  LeftoversNeverBlock
  InUseIsKept
PROPERTIES
  SuccessMeansAgreement
