SPECIFICATION FairSpec
CONSTANTS
  Procs = {p1, p2}
  Tokens = {1, 2, 3, 4, 5, 6}
  NoProc = NoProc
  NoToken = NoToken
  Torn = Torn
  Blocks = 2
  MaxFaults = 4
ACTION_CONSTRAINT LeastToken
INVARIANTS VisibleIsWhole SessionIsResumable
PROPERTIES CancelPreserves ReturnedIsWhole RetryDelivers
CHECK_DEADLOCK FALSE
