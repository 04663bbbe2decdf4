SPECIFICATION FairSpec
CONSTANTS
  None = None
  NoImage = NoImage
  Builds = {b1, b2}
  Workers = {w1, w2}
  Works = {x}
  MaxRetry = 1
  MaxJobs = 2
  Faults = {"registry", "slow"}
CHECK_DEADLOCK FALSE
INVARIANTS
  TypeOK
  IInv
  DoneHasImage
PROPERTIES
  ImplementsOperations
  EventuallyDone
  
  AnswerSettles
