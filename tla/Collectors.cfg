SPECIFICATION Spec
CONSTANTS
  PollInterval = 1
  Window = 3
  BatchSize = 2
  MaxConsecutiveErrors = 2
  MaxRetries = 3
  MaxStreamRetries = 2
  Delays = {0, 1}
  MaxEntries = 3
  MaxPollTime = 9
  Resolvers = {"p", "q", "coredns"}
  CoreDNS = {"coredns"}
  Internal = {"svc"}
  Replies <- MCReplies
  MaxAge = 1
  Skew = 2
  MaxClock = 2
  MaxAnswers = 2
  Selected <- MCSelected
  Target = "web"
  Client = "c"
  HostClient = "host"
  Addrs = {"a1", "a2"}
  NodeAddr = "n"
  Ports = {30000, 40000}
  HostnameOf <- MCHostnameOf
  Uses <- MCUses
  MaxConns = 2
  Answers <- MCAnswers
  TargetFlags <- MCTargetFlags
  Resources <- MCResources
  Objects = {"d1", "d2", "s1"}
  ResourceOf <- MCResourceOf
  Outputs <- MCOutputs
  UploadTimeout = 5
  CheckEvery = 2
  MaxErrors = 1
  MaxWords = 3
  Workloads = {"web", "web-api", "db"}
  MeasuredPods = {"web-1", "web-api-1", "db-0"}
  OwnerOf <- MCOwnerOf
  NamespaceOf <- MCNamespaceOf
  Prefixes <- MCPrefixes
  NameLength <- MCNameLength
  ContainersOf <- MCContainersOf
  Templates <- MCTemplates
  Measured <- MCMeasured
  ClaimsOf <- MCClaimsOf
  Claims <- MCClaims
  Configs <- MCConfigs
  MaxAnomalies = 1
INVARIANTS RightBackend NoFalseEdge OwnHostname RoutedByKind MissedForAReason UploadedIsWhole 
CHECK_DEADLOCK FALSE
