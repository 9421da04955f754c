SPECIFICATION FairSpec
CONSTANTS
  Drives = {d1}
  Plans = {p1}
  Images = {i1}
  NoPlan = NoPlan
  NoImage = NoImage
  NoRequest = NoRequest
  Windows = {TRUE, FALSE}
  Impatient = FALSE
  Offered = {"list", "disks", "check", "elevatedCheck", "erase", "preserve", "inspect", "stage", "act", "install", "prepare", "bitlocker"}
  MaxOps = 3
  MaxLists = 2
  MaxReviews = 1
INVARIANTS
  CancelledWasAsked ReviewIsLive
PROPERTIES OperationEnds
CHECK_DEADLOCK FALSE
