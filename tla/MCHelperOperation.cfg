SPECIFICATION FairSpec
CONSTANTS
  Selected = Selected
  Other = Other
  NoDrive = NoDrive
  MaxFrames = 2
  MaxSwaps = 2
  MaxForeign = 1
INVARIANTS
  OnlyApprovedIsChanged
  SuccessIsReal
  ActivationIsSafe
  RecordsSurvive
PROPERTIES
  StopEnds
