CONSTANTS
  c1 = c1
  Caller = {c1}
  Indexer = {c1}
  Size = 3
  Marks <- OneMember
  End = "EOF"
  Offs = {0, 2}
  Lens = {2}
  ChanCap = 10
  MaxCalls = 4
  MaxFaults = 0
  WaitRule = "stream"
SPECIFICATION Spec
CHECK_DEADLOCK FALSE
INVARIANT PanicFree
