\* Three attempts, two permits, a threshold of two.
CONSTANTS
  Callers = {c1, c2, c3}
  Capacity = 2
  Threshold = 2
  Window = 2
  Cooldown = 1
SPECIFICATION FairSpec
INVARIANTS
  CircuitExact
PROPERTIES
  NoStartDuringCooldown
  HalfOpenEnds
