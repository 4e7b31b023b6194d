\* Room for three events, one reader.
CONSTANTS
  Readers = {r1}
  MaxEvents = 3
CHECK_DEADLOCK FALSE
SPECIFICATION Spec
INVARIANTS
  OneHistory
  NoLostWakeup
PROPERTIES
  ImplementsStream
