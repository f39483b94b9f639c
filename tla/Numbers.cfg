SPECIFICATION FairSpec
CONSTANTS
  Variables <- MCVariables
  Literals <- MCLiterals
  Inputs <- MCInputs
  Steps = {0, 2}
  Half32 = 3
  Half64 = 6
  MaxLoops = 2
  MaxYields = 6
INVARIANTS
  TypeOK
  RangeIsPythons
PROPERTIES
  RangeEnds
