SPECIFICATION Spec
CONSTANTS
  s1 = s1
  s2 = s2
  none = none
  undef = undef
  Slots = {s1}
  Overlap = FALSE
  Stragglers = FALSE
  MaxRequests = 2
  MaxRuns = 1
  Urls <- TwoVersions
  Instances <- TwoInstances
  Kind <- SmallKind
  Addr <- SmallAddr
  Schema <- TwoSchema
  Times <- OneTime
  OverrideLists <- CachedLists
  Vibrations <- MCVibrations
  Undefined = undef
  None = none
  TokenPath = "token"
INVARIANTS
  RootModelIsOwn
CHECK_DEADLOCK FALSE
