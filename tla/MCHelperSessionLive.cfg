SPECIFICATION FairSpec
CONSTANTS
  Checks = {c1}
  Changes = {o1}
  Helpers = {h1, h2}
  NoOp = NoOp
  NoHelper = NoHelper
  KeepSession = {TRUE}
  Window = 0
PROPERTIES
  OperationEnds HelperLeaves
CHECK_DEADLOCK FALSE
