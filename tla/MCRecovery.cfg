CONSTANTS
  MaxRuns = 3
  Calls = 2
  Policies <- MCPolicies
  MaxCancels = 1
  MaxBoots = 2
  k1 = k1
  c1 = c1
  c2 = c2
  NoKey = NoKey
  Unsafe <- MCUnsafe
  Requests <- MCRequests
  MaxRoots = 1
  Failing <- MCFailing
CHECK_DEADLOCK FALSE
SPECIFICATION FairRecoverySpec
INVARIANTS
  NothingTwice
PROPERTIES
  UnsafeHeldBack
  Carried
