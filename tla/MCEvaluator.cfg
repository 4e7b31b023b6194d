CONSTANTS
  agent = agent
  workflow = workflow
  Calls <- MCCalls
  Nested <- MCNested
  MaxTimers = 1
  MaxLogs = 1
  MaxBeats = 2
SPECIFICATION Spec
INVARIANTS
  VerdictsDeserved
  CallsCarried
PROPERTIES
  Settled
