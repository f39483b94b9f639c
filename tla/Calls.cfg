CONSTANTS
  Limit = 7
  MaxDepth = 4
SPECIFICATION FairSpec
INVARIANTS
  TypeOK
  CountersNested
  LimitReachedOnlyByThrowing
  BillMatchesEnding
  DepthBounded
PROPERTY
  Terminates
