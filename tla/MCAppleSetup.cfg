CONSTANTS
  Digests = {d1}
  NoDigest = NoDigest
  MaxBridges = 2
  MaxCrashes = 1
SPECIFICATION FairSpec
INVARIANT RunsAreRecorded
PROPERTY CallsEnd
CHECK_DEADLOCK FALSE
