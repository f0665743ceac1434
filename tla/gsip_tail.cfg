CONSTANTS
  c1 = c1
  Caller = {c1}
  Indexer = {c1}
  Size = 2
  Marks <- LongTail
  End = "EOF"
  Offs = {0, 1, 2}
  Lens = {1, 2}
  ChanCap = 2
  MaxCalls = 4
  MaxFaults = 0
  WaitRule = "stream"
SPECIFICATION Spec
CHECK_DEADLOCK FALSE
INVARIANT NoReaderLost
