SPECIFICATION FairSpec
CONSTANTS
  a1 = a1
  k1 = k1
  k2 = k2
  r1 = r1
  LogEntries = {a1}
  KyvernoEvents = {k1}
  Resources = {r1}
  Related <- OneResource
  BufferSize = 1
  MaxFaults = 1
CHECK_DEADLOCK FALSE
INVARIANTS
  ReportedOnce
  WaitedForNeverSend
PROPERTIES
  LoggedIsReported
  StopEnds
