CONSTANTS
  StepTable <- MCStepTable
  IndexSpace = 32
  Reach = 3
  LastPacket = 60
  Streams <- MCStreams
  None = None
SPECIFICATION Spec
INVARIANTS
  Inv
  NothingLeftOut
PROPERTY
  InOrderOnce
CHECK_DEADLOCK FALSE
