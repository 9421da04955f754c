SPECIFICATION Spec
CONSTANTS
  Steps = {s1, s2}
  Outcomes = {done, failed}
  NoAnchor = NoAnchor
  Limit = 6
  MaxRecords = 5
SYMMETRY Symmetry
INVARIANTS AckedIsKept ReadyReopens
PROPERTIES NothingUncommitted KeepsPromise
CHECK_DEADLOCK FALSE
