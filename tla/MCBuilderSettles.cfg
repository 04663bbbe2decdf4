SPECIFICATION FairSpec
CONSTANTS
  None = None
  NoImage = NoImage
  Builds = {b1, b2}
  Workers = {w1}
  Works = {x}
  MaxRetry = 1
  MaxJobs = 2
  Faults = {"crash", "shutdown", "redis", "k8s", "pods", "registry", "slow"}
CHECK_DEADLOCK FALSE
INVARIANT
  IInv
PROPERTIES
  ImplementsForgetful
  AttemptsRunOut
  EventuallySettled
