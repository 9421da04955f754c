SPECIFICATION Spec
CONSTANTS
  Checks = {c1}
  Changes = {o1, o2}
  Helpers = {h1, h2}
  NoOp = NoOp
  NoHelper = NoHelper
  KeepSession = {TRUE, FALSE}
  Window = 1
SYMMETRY Symmetry
INVARIANTS
  OwnFrames StopIsKept CheckYields ChangeIsWatched
PROPERTY KeepsPromise
CHECK_DEADLOCK FALSE
