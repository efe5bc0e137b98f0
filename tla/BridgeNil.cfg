SPECIFICATION Spec
CONSTANTS
  s1 = s1
  s2 = s2
  none = none
  nil = nil
  unset = unset
  N = 1
  Label <- Label1
  NameOf <- Name1
  Unset = unset
  Options <- KeepOn
  Pos <- MCPos
  Nil = nil
  Rank <- MCRank
  Maps <- MCMaps
  Slots = {s1}
  Urls <- MCUrls
  Instances <- MCInstances
  Kind <- MCKind
  Addr <- MCAddr
  Schema <- MCSchema
  Times <- OneTime
  None = none
  TokenPath = "token"
  Overlap = FALSE
  Stragglers = FALSE
  MaxRequests = 10
  MaxRuns = 10
  Exec <- NilExec
  Shape <- MCShape
  Findable <- MCFindable
  MaxLost = 1
INVARIANTS
  NilIsAnError
CHECK_DEADLOCK FALSE
