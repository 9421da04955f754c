SPECIFICATION FairSpec
CONSTANTS
  Dirs = {d1, d2}
  NoDir = NoDir
  Windows = {TRUE, FALSE}
  Testing = {TRUE, FALSE}
  MaxWrites = 2
INVARIANTS HeldIsImage
PROPERTIES OnlyDamagedIsReplaced JobEnds
CHECK_DEADLOCK FALSE
