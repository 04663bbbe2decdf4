SPECIFICATION Spec
CONSTANTS
  None = None
  NoImage = NoImage
  Builds = {b1, b2, b3, b4}
  Workers = {w1, w2}
  Works = {x}
  MaxRetry = 0
  MaxJobs = 3
  Faults = {}
CHECK_DEADLOCK FALSE
SYMMETRY Symm
INVARIANT
  BuildsBounded
