SPECIFICATION Spec
CONSTANTS
  s1 = s1
  s2 = s2
  none = none
  nil = nil
  unset = unset
  N = 2
  Label <- Label2
  NameOf <- Name2
  Unset = unset
  Options <- KeepOn
  Pos <- MCPos
  Nil = nil
  Rank <- MCRank
  Maps <- MCMaps
  Slots = {s1, s2}
  Urls <- MCUrls
  Instances <- MCInstances
  Kind <- ShortKind
  Addr <- MCAddr
  Schema <- MCSchema
  Times <- OneTime
  None = none
  TokenPath = "token"
  Overlap = TRUE
  Stragglers = TRUE
  MaxRequests = 10
  MaxRuns = 10
  Exec <- TwoShort
  Shape <- MCShape
  Findable <- MCFindable
  MaxLost = 1
PROPERTIES
  Termination
  RequestsEnd
CHECK_DEADLOCK FALSE
