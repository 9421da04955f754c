SPECIFICATION Spec
CONSTANTS
  Steps = {s1, s2}
  Outcomes = {done, failed}
  NoAnchor = NoAnchor
  Limit = 6
  MaxRecords = 5
SYMMETRY Symmetry
INVARIANTS LineBeforeAnchor
CHECK_DEADLOCK FALSE
