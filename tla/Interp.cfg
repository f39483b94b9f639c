CONSTANTS
  Bodies <- MCBodies
  Nesting = 4
  MaxDraws = 8
SPECIFICATION WalkSpec
INVARIANTS
  WalkTypeOK
  CursorAtEnd
  FollowsPython
