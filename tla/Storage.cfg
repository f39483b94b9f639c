CONSTANTS
  Keys = {k1, k2}
  Tokens <- MCTokens
  Doubles <- MCDoubles
  HalfRange = 2
SPECIFICATION Spec
INVARIANTS
  TypeOK
  OneTypePerKey
PROPERTY
  ImplementsDictionary
