CONSTANTS
  PAGE_SIZE = 5
  MaxPages = 2
  Sizes <- MCSizes
SPECIFICATION Spec
INVARIANTS
  TypeOK
  BlocksDisjoint
  BumpAreaUnused
  NeverInvalidOffset
PROPERTY
  ImplementsAbstractHeap
