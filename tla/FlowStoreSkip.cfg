SPECIFICATION Spec
CONSTANTS
  a1 = a1
  a2 = a2
  Agents = {a1, a2}
  MaxEvents = 2
  MaxAge = 1
  BatchSize = 2
  BackoffMin = 1
  BackoffMax = 2
  Stamps = {0, 1}
  MaxPush = 2
  MaxAccepted = 4
  MaxNow = 2
CHECK_DEADLOCK FALSE
SYMMETRY AgentSymmetry
INVARIANT NoSilentSkip
