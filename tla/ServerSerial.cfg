SPECIFICATION Spec
CONSTANTS
  s1 = s1
  s2 = s2
  none = none
  undef = undef
  Slots = {s1}
  Overlap = FALSE
  Stragglers = FALSE
  MaxRequests = 2
  MaxRuns = 3
  Urls <- MCUrls
  Instances <- MCInstances
  Kind <- MCKind
  Addr <- MCAddr
  Schema <- MCSchema
  Times <- MCTimes
  OverrideLists <- MCOverrideLists
  Vibrations <- MCVibrations
  Undefined = undef
  None = none
  TokenPath = "token"
INVARIANTS
  TypeOK
  FreshValuesUnique
  AnsweredIsRecorded
  VibrationRecordIsLast
  SeqExplainsValues
CHECK_DEADLOCK FALSE
