SPECIFICATION MCSpec
CONSTANTS
  Jobs = {"trivy", "nova", "typo"}
  UnknownJobs = {"typo"}
  MaxConcurrentJobs = 2
  MaxErrors = 2
  Requests = {"r1", "r2", "agent"}
  Ignored = {"agent"}
  Deletes = {"r2"}
  ReportsOf <- MCReportsOf
  MaxVersion = 2
  MaxMishaps = 2
  Images <- MCImages
  Kind <- MCKind
  Pods <- MCPods
  Configs <- MCConfigs
  ImageAllowlist = {}
  SignerAllowlist = {"attestedIdentity"}
  MaxConcurrentScans = 2
  VerifyRetries = 2
INVARIANTS ClaimedOnce AllowedForAReason StatusIsEarned SuppressedForAReason
PROPERTIES ClaimedIsReported ConfigArrives TrustRunEnds
CHECK_DEADLOCK FALSE
