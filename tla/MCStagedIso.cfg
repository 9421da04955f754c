SPECIFICATION FairSpec
CONSTANTS
  Ops = {o1}
  Slots = {s1, s2}
  Home = Home
  NoSlot = NoSlot
  NoJob = NoJob
  Unused = Unused
  Others = Others
  MaxFaults = 6
INVARIANTS PartitionsAreRecorded
PROPERTIES DeletesOnlyOwn RemovalEnds
CHECK_DEADLOCK FALSE
