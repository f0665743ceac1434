CONSTANTS
  c1 = c1
  Caller = {c1}
  Indexer = {}
  Size = 2
  Marks <- LongTail
  End = "EOF"
  Offs = {0, 1, 2}
  Lens = {1, 2}
  ChanCap = 10
  MaxCalls = 3
  MaxFaults = 0
  WaitRule = "frontier"
SPECIFICATION Spec
CHECK_DEADLOCK FALSE
INVARIANT ReadsStream
