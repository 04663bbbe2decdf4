SPECIFICATION Spec
CONSTANTS
  sha1 = sha1
  sha2 = sha2
  main = main
  base = base
  tgt1 = tgt1
  tgt2 = tgt2
  CommitPoints <- MCCommitPoints
  BaseImages <- MCBaseImages
  BazelTargets <- MCBazelTargets
  DefaultConfig <- MCDefaultConfig
  Commands <- MCCommands
  None = None
  NoImage = NoImage
  Callers = {g1, g2}
  CacheOps = {o1, o2}
  BuilderOps = {b1, b2}
  Requests <- AllRequests
  Faults = {"crash", "builder", "forgets"}
SYMMETRY Symm
INVARIANTS
  TypeOK
  HandedOutResolves
  ServesRequest
  ImageBelongsToOperation
  RepliesInv
  ServesCommandLine
PROPERTIES
  ImplementsPromise
  RepliesTellWhatIsKnown
