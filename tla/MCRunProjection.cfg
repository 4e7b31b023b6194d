CONSTANTS
  Build = Build
  Review = Review
  Child = Child
  Agents = {1, 2}
  Phases = {Build, Review, Child}
  NoPhase = NoPhase
  Nest = Child
  Declared = {Build}
  Entries = {Build, Review}
  Named = {Review}
  Steady = {1}
  Modes = {"cancellation"}
  MaxAttempts = 2
  MaxQueue = 2
CHECK_DEADLOCK FALSE
SPECIFICATION ProjectionSpec
INVARIANTS
  OnlyStolenIndexRejected
  NothingLeftOpen
PROPERTIES
  FinalsStay
  PhaseTruth
