CONSTANTS
  a1 = a1
  a2 = a2
  Run = Run
  Agents <- MCAgents
  Isolated <- MCIsolated
  Safe <- MCSafe
  ReadOnly = TRUE
  MaxAttempts = 3
  MaxRetries = 1
CHECK_DEADLOCK FALSE
SPECIFICATION FairSpec
INVARIANTS
  EndsAgree
  CompletedInFull
  RetriesSafe
  ReleasableOnlyStopped
PROPERTIES
  ShutdownBounded
