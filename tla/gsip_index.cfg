CONSTANTS
  c1 = c1
  c2 = c2
  Caller = {c1, c2}
  Indexer = {c1}
  Size = 2
  Marks <- EmptyMember
  End = "EOF"
  Offs = {0, 2}
  Lens = {1, 3}
  ChanCap = 1
  MaxCalls = 2
  MaxFaults = 0
  WaitRule = "frontier"
SPECIFICATION FairSpec
CHECK_DEADLOCK FALSE
INVARIANT IndexComplete
INVARIANT PanicFree
INVARIANT CheckpointOrder
PROPERTY CallsReturn
