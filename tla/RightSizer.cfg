SPECIFICATION Spec
CONSTANTS
  w1 = w1
  c1 = c1
  c2 = c2
  Workloads = {w1}
  Containers = {c1, c2}
  MinimumOOMs = 1
  IncrementMultiplier = 2
  MaxMultiplier = 2
  UserLimits = {3}
  MaxRestarts = 2
  MaxFaults = 1
  MaxGeneration = 4
SYMMETRY ContainerSymmetry
CHECK_DEADLOCK FALSE
INVARIANTS
  ItemsDistinct
  PersistedUnlessRaced
  WithinMaximum
