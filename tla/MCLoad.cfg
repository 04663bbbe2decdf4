SPECIFICATION FairSpec
CONSTANTS
  root = root
  m1 = m1
  m2 = m2
  Modules <- MCModules
  Root <- root
  ImportLists <- MCImportLists
INVARIANTS
  ResultInv
  ExecutedOnce
  FailsIfBad
PROPERTIES
  LoadAdvances
  Terminates
CHECK_DEADLOCK FALSE
