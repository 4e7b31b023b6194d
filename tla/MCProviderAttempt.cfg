CONSTANTS
  Boundaries = {"process-tree", "unconfirmed-descendants"}
  MaxEvents = 2
SPECIFICATION Spec
INVARIANTS
  HostAccounted
  ActivityFollowed
PROPERTIES
  NothingRecordedLate
  AttemptEnds
