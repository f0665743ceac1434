SPECIFICATION FairSpec
CONSTANTS
  ByteBits = 2
  ChunkBits = 2
  MaxLen = 3
  LitBits = 2
  DistBits = 1
  CLenBits = 1
  CLenBase = 5
  LengthBits = 2
  MaxNumLit = 4
  MaxNumDist = 2
  EndBlock = 1
  FixedDistBits = 2
  CodeOrder <- MCCodeOrder
  Repeats <- MCRepeats
  RealSymbol <- MCRealSymbol
  RealDist <- MCRealDist
  FixedLens <- MCFixedLens
  Headers <- MCHeaders
  Earlier <- MCEarlier
INVARIANTS TypeOK LengthsExact NeverImpossible NoOverread
PROPERTIES SymbolsExact HeaderEnds
CHECK_DEADLOCK FALSE
