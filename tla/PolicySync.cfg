SPECIFICATION Spec
CONSTANTS
  j1 = j1
  j2 = j2
  Jobs <- MCJobs
  Policies <- OwnPolicies
  Name <- OwnName
  Elsewhere = {"namespaced"}
  Versions = {"v1", "v2"}
  MaxEdits = 1
  MaxFaults = 1
INVARIANTS SuccessIsSynced
PROPERTIES OnlyWantedChange Converges
