CONSTANTS
  W = 3
  Byte = {0, 1}
  Span = 1
  HeaderLen = 1
  ReadLens = {2}
  MatchLens = {2, 4}
  BlockLens = {0, 4}
  MaxText = 6
  MaxBlocks = 3
SPECIFICATION FairSpec
CHECK_DEADLOCK FALSE
INVARIANT TypeOK
INVARIANT WindowExact
INVARIANT LegalCalls
INVARIANT StreamInOrder
INVARIANT CheckpointExact
INVARIANT CheckpointsSpaced
PROPERTY SentWhenHandedOut
PROPERTY ReadReturns
