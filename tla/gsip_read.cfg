CONSTANTS
  c1 = c1
  c2 = c2
  Caller = {c1, c2}
  Indexer = {}
  Size = 3
  Marks <- OneMember
  End = "EOF"
  Offs = {1, 2, 4}
  Lens = {0, 2}
  ChanCap = 1
  MaxCalls = 3
  MaxFaults = 1
  WaitRule = "frontier"
SPECIFICATION Spec
CHECK_DEADLOCK FALSE
INVARIANT TypeOK
INVARIANT ExclusiveOwner
INVARIANT ReadsStream
INVARIANT NoReaderLost
PROPERTY ImplementsReaderAt
