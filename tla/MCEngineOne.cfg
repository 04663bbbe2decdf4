SPECIFICATION FairSpec
CONSTANTS
  v1 = v1
  v2 = v2
  other = other
  foreign = foreign
  generated = generated
  None = None
  Values <- MCValues
  Known <- MCKnown
  Buildable <- MCBuildable
  Fatal <- MCFatal
  Covers <- MCCovers
  Requests <- OneValue
  Evaluations = {e1, e2, e3}
  CacheOps = {o1, o2, o3}
  Faults = {}
INVARIANT
  FailsOnlyIfRefused
PROPERTY
  EventuallyFinished
CHECK_DEADLOCK FALSE
