SPECIFICATION MCSpec
CONSTANTS
  Posts = {"e1", "e2"}
  Gets = {"g1", "g2"}
  MaxTime = 3
  Objects = {"deployment", "pod"}
  Owned = {"pod"}
  MaxGeneration = 3
  MaxQueue = 2
  MaxTrouble = 2
  c1 = c1
  c2 = c2
  Conns = {c1, c2}
  MaxBytes = 3
SYMMETRY ConnSymmetry
INVARIANTS ReportComplete ViewFollows ShownIsReportedOnce
CHECK_DEADLOCK FALSE
