SPECIFICATION Spec
CONSTANTS
  Opener = opener
  Readers = {r1, r2}
  Block = 2
  MaxInt = 99
  Archives <- Compressible
  ReadLens = {2}
  SeekTo = {1}
  MaxReads = 2
  MaxFetches = 1
  Url = {"origin", "mirror", "signed", "lost"}
  Starts = {"origin", "lost"}
  NoUrl = "garbled"
  Answer <- MCAnswer
  StrLen <- MCStrLen
  MaxFaults = 1
INVARIANT ListsAll
CHECK_DEADLOCK FALSE
