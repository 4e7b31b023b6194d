\* One permit, three runs, a burst of two.
CONSTANTS
  a1 = a1
  a2 = a2
  b1 = b1
  c1 = c1
  A = A
  B = B
  C = C
  NoKey = NoKey
  Capacity = 1
  Callers <- MCCallers
  Keys <- MCKeys
  KeyOf <- MCKeyOf
CHECK_DEADLOCK FALSE
SPECIFICATION FairSchedulerSpec
INVARIANTS
  PermitsInOrder
PROPERTIES
  NoStarvation
  ImplementsPool
