SPECIFICATION FairSpec
CONSTANTS
  r1 = r1
  r2 = r2
  Runners = {r1, r2}
  MaxPendingEvents = 3
  BatchSize = 2
  BackoffMin = 1
  BackoffMax = 3
  MaxAccepted = 5
CHECK_DEADLOCK FALSE
INVARIANTS
  QueueIsNewest
  NoLostFlush
PROPERTIES
  ImplementsCountedFifo
  PendingDrains
