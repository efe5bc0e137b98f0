SPECIFICATION Spec
CONSTANTS
  s1 = s1
  s2 = s2
  none = none
  undef = undef
  Slots = {s1, s2}
  Overlap = TRUE
  Stragglers = FALSE
  MaxRequests = 2
  MaxRuns = 3
  Urls <- FewUrls
  Instances <- SmallInstances
  Kind <- SmallKind
  Addr <- SmallAddr
  Schema <- MCSchema
  Times <- OneTime
  OverrideLists <- FewLists
  Vibrations <- MCVibrations
  Undefined = undef
  None = none
  TokenPath = "token"
INVARIANTS
  VibrationRecordIsVibrated
  RecordsOfThisRun
CHECK_DEADLOCK FALSE
