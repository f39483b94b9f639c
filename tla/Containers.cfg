SPECIFICATION Spec
CONSTANTS
  Keys <- MCKeys
  Tokens <- MCTokens
  Doubles = {}
  HalfRange = 1
  End = 4
  WordSize = 8
  Literals <- MCLiterals
  Indices <- MCIndices
  MaxObjects = 2
  MaxLength = 2
INVARIANTS
  TypeOK
  ListLoopInOrder
  DictLoopSeesAll
\* A program that has thrown has ended.
CHECK_DEADLOCK FALSE
