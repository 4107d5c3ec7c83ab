SPECIFICATION Spec
CONSTANTS
  Images <- MCImages
  NoID = ""
  Found <- MCFound
  Vulnerabilities <- MCVulnerabilities
  Key <- MCKey
  NoTag = ""
  Newest <- MCNewest
  MaxImagesToScan = 2
  MaxConcurrentScans = 2
  retryCount = 2
  MaxChanges = 1
  MaxFaults = 1
INVARIANTS NothingForgotten DetailsComplete
PROPERTIES ScansEnd ScannedAgain
CHECK_DEADLOCK FALSE
