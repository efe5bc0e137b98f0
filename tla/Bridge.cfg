SPECIFICATION Spec
CONSTANTS
  s1 = s1
  s2 = s2
  none = none
  nil = nil
  unset = unset
  N = 9
  Label <- AllLabels
  NameOf <- AllNames
  Unset = unset
  Options <- MCOptions
  Pos <- MCPos
  Nil = nil
  Rank <- MCRank
  Maps <- MCMaps
  Slots = {s1}
  Urls <- MCUrls
  Instances <- MCInstances
  Kind <- MCKind
  Addr <- MCAddr
  Schema <- MCSchema
  Times <- TwoTimes
  None = none
  TokenPath = "token"
  Overlap = FALSE
  Stragglers = FALSE
  MaxRequests = 10
  MaxRuns = 20
  Exec <- AllExecs
  Shape <- MCShape
  Findable <- MCFindable
  MaxLost = 1
INVARIANTS
  TypeOK
  MappingSound
  MappingComplete
  SameButVibrated
PROPERTIES
  RefinesRun
  RefinesServer
  Termination
CHECK_DEADLOCK FALSE
