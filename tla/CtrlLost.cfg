SPECIFICATION Spec
CONSTANTS
  pa = pa
  pb = pb
  nil = nil
  unset = unset
  Pos <- MCPos
  Nil = nil
  Rank <- MCRank
  N = 3
  Label <- MCLabel
  NameOf <- MCNameOf
  Unset = unset
  Options <- MCOptions
  Maps <- MCMaps
INVARIANTS
  NothingLost
CHECK_DEADLOCK FALSE
