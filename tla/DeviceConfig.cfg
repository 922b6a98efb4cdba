CONSTANTS
  h1 = h1
  Absent = Absent
  Callers = {h1}
  Scenarios <- MCScenarios
  MaxRequests = 2
SPECIFICATION DeviceFairSpec
INVARIANTS
  Inv
  Applied
  SizeFits
PROPERTY
  StreamFromConfig
CHECK_DEADLOCK FALSE
