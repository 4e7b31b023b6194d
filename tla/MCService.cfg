CONSTANTS
  r1 = r1
  r2 = r2
  m1 = m1
  m2 = m2
  NoRun = NoRun
  Runs <- MCRuns
  Mutations <- MCMutations
CHECK_DEADLOCK FALSE
SPECIFICATION FairSpec
INVARIANTS
  StoreGuarded
  StopIsComplete
PROPERTIES
  StopSettles
