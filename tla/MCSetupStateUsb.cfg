SPECIFICATION Spec
CONSTANTS
  Drives = {d1}
  Plans = {p1, p2}
  Images = {i1, i2}
  NoPlan = NoPlan
  NoImage = NoImage
  NoRequest = NoRequest
  Windows = {TRUE, FALSE}
  Impatient = TRUE
  Offered = {"list", "check", "elevatedCheck", "erase", "preserve", "bitlocker"}
  MaxOps = 3
  MaxLists = 1
  MaxReviews = 2
SYMMETRY Symmetry
INVARIANTS
  ShownIsPending SetupsExclude
PROPERTIES KeepsReviews StopWithdraws
CHECK_DEADLOCK FALSE
