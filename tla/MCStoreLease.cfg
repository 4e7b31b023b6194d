\* Three processes, two attempts to acquire, two writes in flight.
CONSTANTS
  Owners = {o1, o2, o3}
  NoOwner = NoOwner
  Attempts = 2
  MaxPermits = 2
CHECK_DEADLOCK FALSE
SPECIFICATION FairSpec
INVARIANTS
  LockDiscipline
PROPERTIES
  NoUsurpedAcknowledgement
  StaleLockReclaimed
