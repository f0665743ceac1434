CONSTANTS
  Files <- FlawedFiles
  SizeMod = 2
  ReadLens = {1, 2, 4}
  Faulty = TRUE
SPECIFICATION Spec
CHECK_DEADLOCK FALSE
INVARIANT TypeOK
INVARIANT ReadsMembers
INVARIANT HeaderCheckpoints
INVARIANT EOFIsEnd
INVARIANT Verified
