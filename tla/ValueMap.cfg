SPECIFICATION Spec
CONSTANTS
  Leaf <- MCLeaf
  Text <- MCText
INVARIANTS
  MapsTheUnambiguous
CHECK_DEADLOCK FALSE
