SPECIFICATION Spec
CONSTANTS
  Characters <- Chars
  NoAddr = NoAddr
  Written <- MCWritten
  Printed <- MCPrinted
INVARIANTS
  RoundTrip
  WrittenIsKept
CHECK_DEADLOCK FALSE
