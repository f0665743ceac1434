CONSTANTS
  Tars <- LinkTars
  Paths <- Names
  Counts <- CountSet
  MaxHops = 4
  Alphabet <- Components
SPECIFICATION FairSpec
CHECK_DEADLOCK FALSE
INVARIANT TypeOK
INVARIANT DecodeAgrees
INVARIANT OpenExact
INVARIANT ListedOnce
INVARIANT WalkVisitsOnce
PROPERTY OpenReturns
