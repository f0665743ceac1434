SPECIFICATION FairSpec
CONSTANTS
  Opener = opener
  Readers = {r1, r2}
  Block = 2
  MaxInt = 99
  Archives <- Incompressible
  ReadLens = {2}
  SeekTo = {1}
  MaxReads = 2
  MaxFetches = 1
  Url = {"origin", "mirror", "signed", "lost"}
  Starts = {"origin", "lost"}
  NoUrl = "garbled"
  Answer <- MCAnswer
  StrLen <- MCStrLen
  MaxFaults = 1
INVARIANTS TypeOK ListsAll FilesExact NoRace
PROPERTY CallsReturn
CHECK_DEADLOCK FALSE
