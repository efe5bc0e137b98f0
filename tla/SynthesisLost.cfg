SPECIFICATION Spec
CONSTANTS
  None = None
  Anything = Anything
  Many = Many
  NoPath = NoPath
  Absent = Absent
  Panic = Panic
  LastLetter = 2
  Summer <- MCSummer
  FirstHour = 22
  LastHour = 23
  Tokens <- MCTokens
  Schema <- MCSchema
  Response <- MCResponse
  Turns = 30
  Operations <- LineageOperations
INVARIANT
  AnswersAreReadable
