SPECIFICATION Spec
CONSTANTS
  v1 = v1
  v2 = v2
  other = other
  foreign = foreign
  generated = generated
  None = None
  Values <- MCValues
  Known <- MCKnown
  Buildable <- MCBuildable
  Fatal <- MCFatal
  Covers <- MCCovers
  Requests <- SomeValues
  Evaluations = {e1, e2}
  CacheOps = {o1, o2, o3, o4}
  Faults = {"engine", "cache", "db", "builder"}
SYMMETRY Symm
INVARIANTS
  TypeOK
  ValuesBelong
  PolledHasAll
  CompleteInv
CHECK_DEADLOCK FALSE
